---- MODULE Spec2Model ----
(***************************************************************************)
(* Model of the custom explosion generator of the Spring engine             *)
(* (rts/Sim/Projectiles/ExplosionGenerator.cpp): the expression compiler    *)
(* ParseExplosionCode, the bytecode interpreter ExecuteExplosionCode and    *)
(* the program cache of CCustomExplosionGenerator (Load, Reload, Unload,    *)
(* ClearCache), its Explosion, and the generator registry of                *)
(* CExplosionGeneratorHandler.                                              *)
(*                                                                          *)
(* Texts (scripts, tags, generator names) are sequences of one-character    *)
(* strings.  Floating point operands are exact rationals [n, d]; the        *)
(* rounding of (float) is not modelled.                                     *)
(***************************************************************************)
EXTENDS Integers, Sequences, FiniteSets, TLC

(***************************************************************************)
(* Bounds of the model.                                                     *)
(***************************************************************************)
\* longest script text enumerated exhaustively over ScriptChars
MaxLen == 2

(***************************************************************************)
(* Arithmetic helpers.                                                      *)
(***************************************************************************)
Max(a, b) == IF a >= b THEN a ELSE b
Min(a, b) == IF a <= b THEN a ELSE b
Abs(a) == IF a < 0 THEN -a ELSE a

RECURSIVE Gcd(_, _)
Gcd(a, b) == IF b = 0 THEN a ELSE Gcd(b, a % b)

RECURSIVE Pow(_, _)
Pow(b, e) == IF e = 0 THEN 1 ELSE b * Pow(b, e - 1)

\* the rational n/d in lowest terms, d > 0
Rat(n, d) ==
    LET g == Gcd(Abs(n), Abs(d))
        s == IF d < 0 THEN -1 ELSE 1
    IN  [n |-> (s * n) \div g, d |-> (s * d) \div g]

Zero == Rat(0, 1)

(***************************************************************************)
(* C library: isdigit, strtod, strtol on the rest of a text.                *)
(***************************************************************************)
DecDigits == <<"0", "1", "2", "3", "4", "5", "6", "7", "8", "9">>
HexDigits == DecDigits \o <<"a", "b", "c", "d", "e", "f">>

Range(s) == {s[i] : i \in DOMAIN s}
isdigit(c) == c \in Range(DecDigits)
DigitVal(c) == (CHOOSE i \in DOMAIN HexDigits : HexDigits[i] = c) - 1

\* number of leading characters of s, from position i on, that lie in set
RECURSIVE SpanLen(_, _, _)
SpanLen(s, i, set) ==
    IF i <= Len(s) /\ s[i] \in set THEN 1 + SpanLen(s, i + 1, set) ELSE 0

\* value of the n digits of s from position i on, in the given base
RECURSIVE NumVal(_, _, _, _)
NumVal(s, i, n, base) ==
    IF n = 0 THEN 0
    ELSE NumVal(s, i, n - 1, base) * base + DigitVal(s[i + n - 1])

\* the character at position i, NUL past the end (c_str())
CharAt(s, i) == IF i >= 1 /\ i <= Len(s) THEN s[i] ELSE "NUL"

\* digits [ . digits ] from position i on: [ok, len, val]
Mantissa(s, i, digits, base) ==
    LET ni  == SpanLen(s, i, digits)
        dot == CharAt(s, i + ni) = "."
        nf  == IF dot THEN SpanLen(s, i + ni + 1, digits) ELSE 0
    IN  [ok  |-> ni + nf > 0,
         len |-> ni + (IF dot THEN 1 + nf ELSE 0),
         val |-> Rat(NumVal(s, i, ni, base) * Pow(base, nf)
                       + NumVal(s, i + ni + 1, nf, base), Pow(base, nf))]

\* binary exponent p[+-]digits of a hexadecimal float from position i on
BinExponent(s, i) ==
    LET sg == IF CharAt(s, i + 1) \in {"+", "-"} THEN 1 ELSE 0
        nd == SpanLen(s, i + 1 + sg, Range(DecDigits))
        e  == NumVal(s, i + 1 + sg, nd, 10)
    IN  IF CharAt(s, i) = "p" /\ nd > 0
        THEN [len |-> 1 + sg + nd, neg |-> CharAt(s, i + 1) = "-", e |-> e]
        ELSE [len |-> 0, neg |-> FALSE, e |-> 0]

\* strtod(s, &endp): [val, len] with len = endp - s (0: no conversion).
\* hex tells whether the C library accepts the hexadecimal form 0x...
\* (C99, glibc) or not (C90).  The decimal exponent and the inf/nan forms
\* need the letters e, n, f, which no script of the model contains.
strtod(s, hex) ==
    LET ws   == SpanLen(s, 1, {" "})
        sg   == IF CharAt(s, ws + 1) \in {"+", "-"} THEN 1 ELSE 0
        neg  == CharAt(s, ws + 1) = "-"
        b    == ws + sg + 1
        isHx == hex /\ CharAt(s, b) = "0" /\ CharAt(s, b + 1) = "x"
        hm   == Mantissa(s, b + 2, Range(HexDigits), 16)
        he   == BinExponent(s, b + 2 + hm.len)
        dm   == Mantissa(s, b, Range(DecDigits), 10)
        sign == IF neg THEN -1 ELSE 1
    IN  IF isHx /\ hm.ok
        THEN [val |-> IF he.neg
                      THEN Rat(sign * hm.val.n, hm.val.d * Pow(2, he.e))
                      ELSE Rat(sign * hm.val.n * Pow(2, he.e), hm.val.d),
              len |-> ws + sg + 2 + hm.len + he.len]
        ELSE IF dm.ok
        THEN [val |-> Rat(sign * dm.val.n, dm.val.d), len |-> ws + sg + dm.len]
        ELSE [val |-> Zero, len |-> 0]

\* strtol(s, &endp, 10): [val, len]
strtol(s) ==
    LET ws  == SpanLen(s, 1, {" "})
        sg  == IF CharAt(s, ws + 1) \in {"+", "-"} THEN 1 ELSE 0
        neg == CharAt(s, ws + 1) = "-"
        nd  == SpanLen(s, ws + sg + 1, Range(DecDigits))
        v   == NumVal(s, ws + sg + 1, nd, 10)
    IN  IF nd > 0 THEN [val |-> IF neg THEN -v ELSE v, len |-> ws + sg + nd]
        ELSE [val |-> 0, len |-> 0]

(***************************************************************************)
(* std::string: find and substr.  Positions count from 0; npos is the       *)
(* largest size_type, so that npos + 1 wraps to 0.                          *)
(***************************************************************************)
Npos == -1

\* script.find(c, pos)
RECURSIVE Find(_, _, _)
Find(s, c, pos) ==
    IF pos < 0 \/ pos >= Len(s) THEN Npos
    ELSE IF s[pos + 1] = c THEN pos
    ELSE Find(s, c, pos + 1)

\* script.substr(pos, count); a wrapped (negative) count reaches the end
Substr(s, pos, count) ==
    IF count < 0 THEN SubSeq(s, pos + 1, Len(s))
    ELSE SubSeq(s, pos + 1, Min(pos + count, Len(s)))

(***************************************************************************)
(* The opcode stream.  An instruction is [op, arg]; OpWidth is the number   *)
(* of bytes it takes in the stream (tag byte plus operand).                 *)
(***************************************************************************)
PointerSize == 8

Instr(op, arg) == [op |-> op, arg |-> arg]

StoreOps == {"OP_STOREI", "OP_STOREF", "OP_STOREC"}
RegisterOps == {"OP_YANK", "OP_MULTIPLY", "OP_ADDBUFF", "OP_POWBUFF"}
FloatOps == {"OP_ADD", "OP_RAND", "OP_DAMAGE", "OP_INDEX", "OP_SAWTOOTH",
             "OP_DISCRETE", "OP_SINE", "OP_POW"}
OffsetOps == StoreOps \cup {"OP_STOREP", "OP_DIR"}

OpWidth(op) ==
    IF op = "OP_END" THEN 1
    ELSE IF op \in OffsetOps THEN 1 + 2
    ELSE IF op = "OP_LOADP" THEN 1 + PointerSize
    ELSE 1 + 4

\* boost::uint16_t ofs = offset
Uint16(offset) == offset % 65536

(***************************************************************************)
(* ParseExplosionCode, scalar leaf: the tokenizer loop.                     *)
(***************************************************************************)
\* the opcode of a mnemonic letter; OP_END for any other character
MnemonicOp(c) ==
    CASE c = "i" -> "OP_INDEX"
      [] c = "r" -> "OP_RAND"
      [] c = "d" -> "OP_DAMAGE"
      [] c = "m" -> "OP_SAWTOOTH"
      [] c = "k" -> "OP_DISCRETE"
      [] c = "s" -> "OP_SINE"
      [] c = "p" -> "OP_POW"
      [] c = "y" -> "OP_YANK"
      [] c = "x" -> "OP_MULTIPLY"
      [] c = "a" -> "OP_ADDBUFF"
      [] c = "q" -> "OP_POWBUFF"
      [] OTHER   -> "OP_END"

\* std::max(0, std::min(16, v))
ClampRegister(v) == Max(0, Min(16, v))

\* the operand read by strtol, clamped
ClampOperand(iv) == [val |-> ClampRegister(iv.val), len |-> iv.len]

\* the operand of an instruction, read from the rest of the script:
\* [val, len], len the number of characters consumed
Operand(useInt, rest, hex) ==
    IF useInt THEN ClampOperand(strtol(rest)) ELSE strtod(rest, hex)

\* p += endp - &script.c_str()[p]; code += opcode; code.append(v)
TokenEmit(p, opcode, v) ==
    [p |-> p + v.len, emit |-> <<Instr(opcode, v.val)>>]

\* one iteration of while (p < script.length()): the new p and the
\* instructions appended (none or one)
TokenStep(scr, p, hex) ==
    LET c      == scr[p + 1]
        isAdd  == isdigit(c) \/ c = "." \/ c = "-"
        opcode == IF isAdd THEN "OP_ADD" ELSE MnemonicOp(c)
        p1     == IF isAdd THEN p ELSE p + 1
    IN  IF c = " " THEN [p |-> p + 1, emit |-> <<>>]
        ELSE IF opcode = "OP_END" THEN [p |-> p + 1, emit |-> <<>>]
        ELSE IF p1 >= Len(scr) THEN [p |-> p1, emit |-> <<>>]
        ELSE TokenEmit(p1, opcode,
                       Operand(opcode \in RegisterOps,
                               SubSeq(scr, p1 + 1, Len(scr)), hex))

RECURSIVE Tokenize(_, _, _, _)
\* the loop after the iteration t made at position p.  An iteration that
\* leaves p where it was repeats forever, appending the same instruction:
\* status "hang".
TokenizeAfter(scr, p, code, hex, t) ==
    IF t.p = p THEN [code |-> code \o t.emit, status |-> "hang"]
    ELSE Tokenize(scr, t.p, code \o t.emit, hex)

\* the whole loop from position p on
Tokenize(scr, p, code, hex) ==
    IF p >= Len(scr) THEN [code |-> code, status |-> "ok"]
    ELSE TokenizeAfter(scr, p, code, hex, TokenStep(scr, p, hex))

\* a switch that pushes OP_STOREF whatever the type
StoreOpFloat(id) == "OP_STOREF"

\* switch (basicType->id) of the trailing store
StoreOp(id) ==
    CASE id = "crInt"   -> "OP_STOREI"
      [] id = "crBool"  -> "OP_STOREI"
      [] id = "crFloat" -> "OP_STOREF"
      [] id = "crUChar" -> "OP_STOREC"

LegalType(id) == id \in {"crInt", "crFloat", "crUChar", "crBool"}


(***************************************************************************)
(* Reflected types (creg).  A type is one of                                *)
(*   [kind |-> "basic", id]                        creg::BasicType          *)
(*   [kind |-> "object", chain]                    creg::ObjectInstanceType *)
(*      chain: the class and its bases, each [members |-> <<member>>]       *)
(*   [kind |-> "array", size, elemSize, elemType]  creg::StaticArrayBaseType*)
(*   [kind |-> "other", name]                      any other type           *)
(* and a member is [name, offset, type, config].                            *)
(***************************************************************************)
BasicType(id) == [kind |-> "basic", id |-> id]
OtherType(name) == [kind |-> "other", name |-> name]
Member(name, offset, type, config) ==
    [name |-> name, offset |-> offset, type |-> type, config |-> config]

(***************************************************************************)
(* The world the compiler and the cache act on:                             *)
(*   gens   the generator objects ever created, by handle (1 is globalCEG,  *)
(*          0 is the NULL pointer); a deleted object stays, live = FALSE    *)
(*   egs    CExplosionGeneratorHandler::explosionGenerators, ID -> handle   *)
(*   num    numLoadedGenerators                                             *)
(*   root   explTblRoot: [null, tables], tables a function from tags to    *)
(*          definition tables, null telling that the pointer is NULL       *)
(*   hex    whether strtod of the C library reads hexadecimal floats        *)
(*   status "ok"; "throw": a content_error left the call; "hang": the       *)
(*          call never returns; "ub": undefined behaviour was executed;     *)
(*          "overflow": Load within Load exhausted the stack                *)
(*   depth  the number of Load calls under way inside LoadGenerator         *)
(***************************************************************************)
NULL == 0
GlobalCEG == 1

EXPLOSION_ID_INVALID == -1
EXPLOSION_ID_STANDARD == -2
EXPLOSION_ID_SPAWNER == -3

NullRoot == [null |-> TRUE, tables |-> << >>]
Root(tables) == [null |-> FALSE, tables |-> tables]
InvalidTable == [valid |-> FALSE]

NewGenerator(cls, id) ==
    [cls |-> cls, generatorID |-> id, explosionIDs |-> << >>,
     explosionData |-> <<>>, spawnExplGens |-> <<>>, live |-> TRUE]

MapPut(f, k, v) == [x \in DOMAIN f \cup {k} |-> IF x = k THEN v ELSE f[x]]
MapErase(f, k) == [x \in DOMAIN f \ {k} |-> f[x]]

Fail(W, how) == [W EXCEPT !.status = how]

\* root->SubTable(tag), or LuaTable() without a root
SubTable(W, tag) ==
    IF W.root.null THEN InvalidTable
    ELSE IF tag \in DOMAIN W.root.tables THEN W.root.tables[tag]
    ELSE InvalidTable

(***************************************************************************)
(* Resource registries and class registries (external collaborators).       *)
(***************************************************************************)
\* a pointer operand of OP_LOADP
NullPtr == [ptr |-> "NULL"]
ResourcePtr(kind, name) == [ptr |-> kind, name |-> name]
GeneratorPtr(h) == IF h = NULL THEN NullPtr ELSE [ptr |-> "generator", h |-> h]

StrCustom == <<"c", "u", "s", "t", "o", "m">>
StrStd == <<"s", "t", "d">>

\* generatorClasses.GetClass(prefix): aliases of gamedata/explosion_alias.lua
GeneratorClass(prefix) ==
    IF prefix = StrCustom THEN "CCustomExplosionGenerator"
    ELSE IF prefix = StrStd THEN "CStdExplosionGenerator"
    ELSE "NULL"

(***************************************************************************)
(* ParseExplosionCode                                                       *)
(***************************************************************************)
RECURSIVE ParseExplosionCode(_, _, _, _, _, _)
RECURSIVE ParseMembers(_, _, _, _, _, _, _, _, _)
RECURSIVE ParseElems(_, _, _, _, _, _, _, _)
RECURSIVE LoadGenerator(_, _)
RECURSIVE Load(_, _, _)
RECURSIVE LoadSpawns(_, _, _, _, _)
RECURSIVE LoadProps(_, _, _, _, _, _)
RECURSIVE Unload(_, _)
RECURSIVE UnloadAll(_, _, _)
RECURSIVE UnloadGenerator(_, _)

\* OP_LOADP ptr, OP_STOREP ofs
PointerCode(ptr, offset) ==
    <<Instr("OP_LOADP", ptr), Instr("OP_STOREP", Uint16(offset))>>

\* the store carrying the offset, after the tokens t of the loop
AppendStore(W, offset, type, t) ==
    IF t.status # "ok" THEN [W |-> Fail(W, t.status), code |-> t.code]
    ELSE [W |-> W,
          code |-> Append(t.code, Instr(StoreOp(type.id), Uint16(offset)))]

\* a scalar branch that compiles the tokens of every basic type, and leaves
\* the store out for the types that have none
ParseScalarUnchecked(W, offset, type, scr, code) ==
    IF LegalType(type.id)
    THEN AppendStore(W, offset, type, Tokenize(scr, 0, code, W.hex))
    ELSE [W |-> W, code |-> Tokenize(scr, 0, code, W.hex).code]

\* the scalar branch: tokens, then the store
ParseScalar(W, offset, type, scr, code) ==
    IF ~LegalType(type.id) THEN [W |-> Fail(W, "throw"), code |-> code]
    ELSE AppendStore(W, offset, type, Tokenize(scr, 0, code, W.hex))

\* spawnExplGens.push_back(explGen) and the pointer code, lg being the
\* result of LoadGenerator
PushGenerator(self, offset, code, lg) ==
    IF lg.W.status # "ok" THEN [W |-> lg.W, code |-> code]
    ELSE [W |-> [lg.W EXCEPT !.gens[self].spawnExplGens = Append(@, lg.ret)],
          code |-> code \o PointerCode(GeneratorPtr(lg.ret), offset)]

\* the branch of the resource handle types, name being the text before ';'
ParseNamed(W, self, offset, type, name, code) ==
    IF type.name = "AtlasedTexture*"
    THEN [W |-> W, code |-> code \o
            PointerCode(ResourcePtr("AtlasedTexture", name), offset)]
    ELSE IF type.name = "GroundFXTexture*"
    THEN [W |-> W, code |-> code \o
            PointerCode(ResourcePtr("GroundFXTexture", name), offset)]
    ELSE IF type.name = "CColorMap*"
    THEN [W |-> W, code |-> code \o
            PointerCode(ResourcePtr("CColorMap", name), offset)]
    ELSE IF type.name = "IExplosionGenerator*"
    THEN PushGenerator(self, offset, code, LoadGenerator(W, name))
    ELSE [W |-> W, code |-> code]

ParsePointer(W, self, offset, type, scr, code) ==
    ParseNamed(W, self, offset, type, Substr(scr, 0, Find(scr, ";", 0)), code)

\* ParseExplosionCode without the match of the keyword
ParseExplosionCodeNoKeyword(W, self, offset, type, scr, code) ==
    IF W.status # "ok" THEN [W |-> W, code |-> code]
    ELSE IF type.kind = "basic"
    THEN ParseScalar(W, offset, type, scr, code)
    ELSE IF type.kind = "object"
    THEN ParseMembers(W, self, offset, type.chain, 1, 1, 0, scr, code)
    ELSE IF type.kind = "array"
    THEN ParseElems(W, self, offset, type, 0, 0, scr, code)
    ELSE ParsePointer(W, self, offset, type, scr, code)

ParseExplosionCode(W, self, offset, type, scr, code) ==
    IF W.status # "ok" THEN [W |-> W, code |-> code]
    ELSE IF Substr(scr, 0, Find(scr, ";", 0)) = <<"d", "i", "r">>
    THEN [W |-> W, code |-> Append(code, Instr("OP_DIR", Uint16(offset)))]
    ELSE IF type.kind = "basic"
    THEN ParseScalar(W, offset, type, scr, code)
    ELSE IF type.kind = "object"
    THEN ParseMembers(W, self, offset, type.chain, 1, 1, 0, scr, code)
    ELSE IF type.kind = "array"
    THEN ParseElems(W, self, offset, type, 0, 0, scr, code)
    ELSE ParsePointer(W, self, offset, type, scr, code)

\* start = end + 1; if (start >= script.length()) break; r being the result
\* of the member's ParseExplosionCode
MembersAfter(self, offset, chain, c, a, start, scr, r) ==
    IF start >= Len(scr) THEN r
    ELSE ParseMembers(r.W, self, offset, chain, c, a + 1, start, scr, r.code)

\* the body of the loop over the members, end being script.find(',', start+1)
ParseMember(W, self, offset, chain, c, a, start, end, scr, code) ==
    MembersAfter(self, offset, chain, c, a, end + 1, scr,
                 ParseExplosionCode(W, self,
                                    offset + chain[c].members[a].offset,
                                    chain[c].members[a].type,
                                    Substr(scr, start, end - start), code))

\* the loops over the classes c of the chain and the members a of c
ParseMembers(W, self, offset, chain, c, a, start, scr, code) ==
    IF W.status # "ok" \/ c > Len(chain) THEN [W |-> W, code |-> code]
    ELSE IF a > Len(chain[c].members)
    THEN IF start >= Len(scr) THEN [W |-> W, code |-> code]
         ELSE ParseMembers(W, self, offset, chain, c + 1, 1, start, scr, code)
    ELSE ParseMember(W, self, offset, chain, c, a, start,
                     Find(scr, ",", start + 1), scr, code)

\* start = end + 1; if (start >= script.length()) break; r being the result
\* of the element's ParseExplosionCode
ElemsAfter(self, offset, sat, i, start, scr, r) ==
    IF start >= Len(scr) THEN r
    ELSE ParseElems(r.W, self, offset, sat, i + 1, start, scr, r.code)

\* the body of the loop over the elements, end being script.find(',', start+1)
ParseElem(W, self, offset, sat, i, start, end, scr, code) ==
    ElemsAfter(self, offset, sat, i, end + 1, scr,
               ParseExplosionCode(W, self, offset + sat.elemSize * i,
                                  sat.elemType,
                                  Substr(scr, start, end - start), code))

\* the loop over the elements i of a fixed-size array
ParseElems(W, self, offset, sat, i, start, scr, code) ==
    IF W.status # "ok" \/ i >= sat.size THEN [W |-> W, code |-> code]
    ELSE ParseElem(W, self, offset, sat, i, start,
                   Find(scr, ",", start + 1), scr, code)


(***************************************************************************)
(* The reflected projectile classes of the model (creg registry):           *)
(* [name, chain, synced], looked up by projectileClasses.GetClass.          *)
(***************************************************************************)
NullClass == [name |-> "NULL", chain |-> <<>>, synced |-> FALSE]
NoMember == [name |-> "NULL"]

TInt == BasicType("crInt")
TFloat == BasicType("crFloat")
TUChar == BasicType("crUChar")
TBool == BasicType("crBool")
TShort == BasicType("crShort")
\* float3: x, y, z
TFloat3 == [kind |-> "object", chain |-> <<[members |-> <<
               Member("x", 0, TFloat, FALSE), Member("y", 4, TFloat, FALSE),
               Member("z", 8, TFloat, FALSE)>>]>>]
\* a class with one member of its own and two inherited from its base
TDerived == [kind |-> "object", chain |-> <<
               [members |-> <<Member("own", 8, TInt, FALSE)>>],
               [members |-> <<Member("b0", 0, TUChar, FALSE),
                              Member("b1", 4, TFloat, FALSE)>>]>>]
TArray == [kind |-> "array", size |-> 3, elemSize |-> 4, elemType |-> TFloat]
TGenerator == OtherType("IExplosionGenerator*")
TTexture == OtherType("AtlasedTexture*")
TGroundFX == OtherType("GroundFXTexture*")
TColorMap == OtherType("CColorMap*")
TString == OtherType("std::string")

CSimpleProjectile ==
    [name |-> "CSimpleProjectile", synced |-> FALSE,
     chain |-> <<[members |-> <<
        Member("alpha", 16, TFloat, TRUE),
        Member("ttl", 20, TInt, TRUE),
        Member("color", 24, TUChar, TRUE),
        Member("speed", 28, TFloat3, TRUE),
        Member("id", 40, TInt, FALSE)>>]>>]

CExpGenSpawner ==
    [name |-> "CExpGenSpawner", synced |-> FALSE,
     chain |-> <<[members |-> <<
        Member("delay", 16, TInt, TRUE),
        Member("explosionGenerator", 24, TGenerator, TRUE)>>]>>]

CSyncedProjectile ==
    [name |-> "CSyncedProjectile", synced |-> TRUE,
     chain |-> <<[members |-> <<Member("damage", 16, TFloat, TRUE)>>]>>]

\* a class with a configurable member of a basic type other than int,
\* float, uchar and bool
CShortProjectile ==
    [name |-> "CShortProjectile", synced |-> FALSE,
     chain |-> <<[members |-> <<
        Member("alpha", 16, TFloat, TRUE),
        Member("size", 20, TShort, TRUE)>>]>>]

Classes ==
    {CSimpleProjectile, CExpGenSpawner, CSyncedProjectile, CShortProjectile}

\* handler->projectileClasses.GetClass(className)
GetClass(className) ==
    IF \E c \in Classes : c.name = className
    THEN CHOOSE c \in Classes : c.name = className
    ELSE NullClass

AllMembers(cls) ==
    LET RECURSIVE Cat(_)
        Cat(i) == IF i > Len(cls.chain) THEN <<>>
                  ELSE cls.chain[i].members \o Cat(i + 1)
    IN  Cat(1)

\* psi.projectileClass->FindMember(name)
FindMember(cls, name) ==
    LET ms == AllMembers(cls)
    IN  IF \E i \in DOMAIN ms : ms[i].name = name
        THEN ms[CHOOSE i \in DOMAIN ms : ms[i].name = name /\
                    \A j \in 1..(i - 1) : ms[j].name # name]
        ELSE NoMember

(***************************************************************************)
(* CCustomExplosionGenerator::Load and CExplosionGeneratorHandler::         *)
(* LoadGenerator.  A definition table is InvalidTable or                    *)
(* [valid, spawns, groundflash, useDefaultExplosions]; a spawn is           *)
(* [name, isTable, class, count, flags, props], props a sequence of         *)
(* [name, script] in key order.                                             *)
(***************************************************************************)
\* the bit GetFlagsFromTable sets for a key that is true
SpawnFlag(key) ==
    CASE key = "ground"     -> "SPW_GROUND"
      [] key = "water"      -> "SPW_WATER"
      [] key = "air"        -> "SPW_AIR"
      [] key = "underwater" -> "SPW_UNDERWATER"
      [] key = "unit"       -> "SPW_UNIT"
      [] key = "nounit"     -> "SPW_NO_UNIT"

\* keys being the keys of the table that are true; a mask is the set of
\* its bits
GetFlagsFromTable(keys) ==
    {SpawnFlag(k) : k \in keys \cap {"ground", "water", "air", "underwater",
                                     "unit", "nounit"}}

NoGroundFlash == [ttl |-> 0, flashSize |-> 0, flags |-> {}]

\* the groundflash part of Load
GroundFlash(gnd) ==
    IF gnd.ttl > 0
    THEN [ttl |-> gnd.ttl, flashSize |-> gnd.flashSize,
          flags |-> {"SPW_GROUND"} \cup GetFlagsFromTable(gnd.flags)]
    ELSE NoGroundFlash

\* CStdExplosionGenerator::Load
StdLoad(W, tag) == [W |-> W, ret |-> EXPLOSION_ID_STANDARD]

\* the body of the loop over the properties, m being the member found
LoadProp(W, self, cls, props, i, code, m) ==
    IF m # NoMember /\ m.config
    THEN ParseExplosionCode(W, self, m.offset, m.type, props[i].script, code)
    ELSE [W |-> W, code |-> code]

\* the loop over the properties after property i, r being its result
PropsAfter(self, cls, props, i, r) ==
    LoadProps(r.W, self, cls, props, i + 1, r.code)

\* the loop over the properties of one spawn table
LoadProps(W, self, cls, props, i, code) ==
    IF W.status # "ok" \/ i > Len(props) THEN [W |-> W, code |-> code]
    ELSE PropsAfter(self, cls, props, i,
                    LoadProp(W, self, cls, props, i, code,
                             FindMember(cls, props[i].name)))

\* psi.code += OP_END; projectileSpawn.push_back(psi), r being the result
\* of the loop over the properties
PushSpawn(self, spawns, i, projectileSpawn, cls, r) ==
    IF r.W.status # "ok"
    THEN [W |-> r.W, projectileSpawn |-> projectileSpawn]
    ELSE LoadSpawns(r.W, self, spawns, i + 1,
                    Append(projectileSpawn,
                           [projectileClass |-> cls.name,
                            code  |-> Append(r.code, Instr("OP_END", 0)),
                            count |-> spawns[i].count,
                            flags |-> GetFlagsFromTable(spawns[i].flags)]))

\* the body of the loop over the keys, cls being the class looked up
LoadSpawn(W, self, spawns, i, projectileSpawn, cls) ==
    IF ~spawns[i].isTable \/ spawns[i].name = "groundflash"
    THEN LoadSpawns(W, self, spawns, i + 1, projectileSpawn)
    ELSE IF cls = NullClass
    THEN [W |-> Fail(W, "ub"), projectileSpawn |-> projectileSpawn]
    ELSE IF cls.synced
    THEN LoadSpawns(W, self, spawns, i + 1, projectileSpawn)
    ELSE PushSpawn(self, spawns, i, projectileSpawn, cls,
                   LoadProps(W, self, cls, spawns[i].props, 1, <<>>))

\* the loop over the keys of the definition table
LoadSpawns(W, self, spawns, i, projectileSpawn) ==
    IF W.status # "ok" \/ i > Len(spawns)
    THEN [W |-> W, projectileSpawn |-> projectileSpawn]
    ELSE LoadSpawn(W, self, spawns, i, projectileSpawn,
                   GetClass(spawns[i].class))

\* a push_back that hands out the size after it as the identifier
PushDataAtSize(W, self, tag, data) ==
    [W |-> [W EXCEPT !.gens[self].explosionData = data,
                     !.gens[self].explosionIDs = MapPut(@, tag, Len(data))],
     ret |-> Len(data)]

\* explosionData.push_back(cegData) in the world W
PushData(W, self, tag, data) ==
    [W |-> [W EXCEPT !.gens[self].explosionData = data,
                     !.gens[self].explosionIDs = MapPut(@, tag, Len(data) - 1)],
     ret |-> Len(data) - 1]

\* the end of Load, r being the result of the loop over the keys
LoadData(self, tag, expTable, r) ==
    IF r.W.status # "ok" THEN [W |-> r.W, ret |-> EXPLOSION_ID_INVALID]
    ELSE PushData(r.W, self, tag,
                  Append(r.W.gens[self].explosionData,
                         [projectileSpawn |-> r.projectileSpawn,
                          groundFlash |-> GroundFlash(expTable.groundflash),
                          useDefaultExplosions |->
                              expTable.useDefaultExplosions]))

\* a Load that registers an empty definition for an invalid table
LoadTableLenient(W, self, tag, expTable) ==
    IF ~expTable.valid
    THEN PushData(W, self, tag,
                  Append(W.gens[self].explosionData,
                         [projectileSpawn |-> <<>>,
                          groundFlash |-> NoGroundFlash,
                          useDefaultExplosions |-> FALSE]))
    ELSE LoadData(self, tag, expTable,
                  LoadSpawns(W, self, expTable.spawns, 1, <<>>))

\* Load after the lookup of tag in explosionIDs failed
LoadTable(W, self, tag, expTable) ==
    IF ~expTable.valid THEN [W |-> W, ret |-> EXPLOSION_ID_INVALID]
    ELSE LoadData(self, tag, expTable,
                  LoadSpawns(W, self, expTable.spawns, 1, <<>>))

\* Load without the lookup of the tag in explosionIDs
LoadUncached(W, self, tag) ==
    IF W.status # "ok" THEN [W |-> W, ret |-> EXPLOSION_ID_INVALID]
    ELSE IF W.gens[self].cls # "CCustomExplosionGenerator"
    THEN StdLoad(W, tag)
    ELSE LoadTable(W, self, tag, SubTable(W, tag))

Load(W, self, tag) ==
    IF W.status # "ok" THEN [W |-> W, ret |-> EXPLOSION_ID_INVALID]
    ELSE IF W.gens[self].cls # "CCustomExplosionGenerator"
    THEN StdLoad(W, tag)
    ELSE IF tag \in DOMAIN W.gens[self].explosionIDs
    THEN [W |-> W, ret |-> W.gens[self].explosionIDs[tag]]
    ELSE LoadTable(W, self, tag, SubTable(W, tag))

\* explosionGenerators[explGen->GetGeneratorID()] = explGen, W being the
\* world after explGen->Load
RegisterGenerator(W, id, explGen) ==
    IF W.status # "ok" THEN [W |-> W, ret |-> NULL]
    ELSE [W |-> [W EXCEPT !.egs = MapPut(@, id, explGen)], ret |-> explGen]

\* the frames of Load within Load the stack has room for
StackDepth == 2

\* explGen->Load(this, postfix) has returned into LoadGenerator
Unwind(W) == [W EXCEPT !.depth = @ - 1]

\* the generator of class cls is created, loaded and registered.  A Load
\* nested deeper than the stack has room for ends the process: "overflow".
CreateGenerator(W, cls, id, explGen, postfix) ==
    IF postfix # <<>> /\ W.depth >= StackDepth
    THEN [W |-> Fail(W, "overflow"), ret |-> NULL]
    ELSE RegisterGenerator(
        IF postfix # <<>>
        THEN Unwind(Load([W EXCEPT !.gens = Append(@, NewGenerator(cls, id)),
                                   !.num = id, !.depth = @ + 1],
                         explGen, postfix).W)
        ELSE [W EXCEPT !.gens = Append(@, NewGenerator(cls, id)), !.num = id],
        id, explGen)

\* LoadGenerator after the tag was split at seppos
LoadSplit(W, tag, seppos) ==
    IF GeneratorClass(IF seppos # Npos THEN Substr(tag, 0, seppos) ELSE tag)
           = "NULL"
    THEN [W |-> W, ret |-> NULL]
    ELSE CreateGenerator(
             W,
             GeneratorClass(IF seppos # Npos THEN Substr(tag, 0, seppos)
                            ELSE tag),
             W.num + 1, Len(W.gens) + 1,
             IF seppos # Npos THEN Substr(tag, seppos + 1, Npos) ELSE <<>>)

\* no script of the model names a registered class that is not a generator,
\* so the content_error of LoadGenerator is never thrown
LoadGenerator(W, tag) ==
    IF W.status # "ok" THEN [W |-> W, ret |-> NULL]
    ELSE LoadSplit(W, tag, Find(tag, ":", 0))

(***************************************************************************)
(* Unload, UnloadGenerator, ClearCache                                      *)
(***************************************************************************)
\* the loop of Unload over spawnExplGens
UnloadAll(W, egi, i) ==
    IF W.status # "ok" \/ i > Len(egi) THEN W
    ELSE UnloadAll(UnloadGenerator(W, egi[i]), egi, i + 1)

\* an Unload that drops the cache with the nested generators
UnloadAndForget(W, self) ==
    IF W.status # "ok" THEN W
    ELSE IF W.gens[self].cls # "CCustomExplosionGenerator" THEN W
    ELSE [UnloadAll(W, W.gens[self].spawnExplGens, 1)
             EXCEPT !.gens[self].explosionIDs = << >>,
                    !.gens[self].explosionData = <<>>]

Unload(W, self) ==
    IF W.status # "ok" THEN W
    ELSE IF W.gens[self].cls # "CCustomExplosionGenerator" THEN W
    ELSE UnloadAll(W, W.gens[self].spawnExplGens, 1)

\* delete explGen after explGen->Unload left the world W1.  Of a deleted
\* object only the fact that it is dead is kept.
DeleteGenerator(W1, explGen, o) ==
    IF W1.status # "ok" THEN W1
    ELSE [W1 EXCEPT
            !.egs = MapErase(@, o.generatorID),
            !.gens[explGen] =
                [NewGenerator(o.cls, o.generatorID) EXCEPT !.live = FALSE]]

\* a NULL or an already deleted generator is dereferenced: undefined
UnloadGenerator(W, explGen) ==
    IF W.status # "ok" THEN W
    ELSE IF explGen = NULL THEN Fail(W, "ub")
    ELSE IF ~W.gens[explGen].live THEN Fail(W, "ub")
    ELSE DeleteGenerator(Unload(W, explGen), explGen, W.gens[explGen])

ClearCache(W, self) ==
    [W EXCEPT !.gens[self].spawnExplGens = <<>>,
              !.gens[self].explosionIDs = << >>,
              !.gens[self].explosionData = <<>>]

(***************************************************************************)
(* CCustomExplosionGenerator::Reload                                        *)
(***************************************************************************)
\* characters in the order of their codes (std::map<std::string, ...>)
Ascii == <<" ", ",", "-", ".", "0", "1", "2", "3", "4", "5", "6", "7", "8",
           "9", ":", ";", "?", "A", "B", "C", "D", "a", "b", "c", "d", "e",
           "f", "i", "k", "m", "o", "p", "q", "r", "s", "t", "u", "x", "y">>
CharCode(c) == CHOOSE i \in DOMAIN Ascii : Ascii[i] = c

\* s < t for std::string
RECURSIVE StrLess(_, _)
StrLess(s, t) ==
    IF t = <<>> THEN FALSE
    ELSE IF s = <<>> THEN TRUE
    ELSE IF CharCode(Head(s)) # CharCode(Head(t))
    THEN CharCode(Head(s)) < CharCode(Head(t))
    ELSE StrLess(Tail(s), Tail(t))

\* IExplosionGenerator::LoadGlobal(tag, luaCall): globalSEG takes the tags
\* without a prefix that do not come from Lua, globalCEG the others
LoadGlobal(W, tag, luaCall) ==
    IF tag = <<>> THEN [W |-> W, ret |-> EXPLOSION_ID_INVALID]
    ELSE IF ~luaCall /\ ~(Len(tag) >= 7 /\ tag[7] = ":") THEN StdLoad(W, tag)
    ELSE Load(W, GlobalCEG,
              IF Len(tag) >= 7 /\ tag[7] = ":"
              THEN SubSeq(tag, 8, Len(tag)) ELSE tag)

\* the keys of a std::map in iteration order
RECURSIVE SortedKeys(_)
SortedKeys(S) ==
    IF S = {} THEN <<>>
    ELSE LET k == CHOOSE x \in S : \A y \in S \ {x} : StrLess(x, y)
         IN  <<k>> \o SortedKeys(S \ {k})

\* the loop of Reload over oldExplosionIDs
RECURSIVE ReloadAll(_, _, _, _)
ReloadAll(W, self, keys, i) ==
    IF W.status # "ok" \/ i > Len(keys) THEN W
    ELSE ReloadAll(Load(W, self, keys[i]).W, self, keys, i + 1)

\* explosionData[cegIndex] = explosionData[numCEGs - 1];
\* explosionData[numCEGs - 1] = tmpCEG
Remap(explosionData, numCEGs, cegIndex, tmpCEG) ==
    [[explosionData EXCEPT ![cegIndex + 1] = explosionData[numCEGs]]
        EXCEPT ![numCEGs] = tmpCEG]

\* the end of Reload's else branch without explosionData[cegIndex] = oldCEG
ReloadFinishNoRestore(self, tag, numCEGs, cegIndex, oldCEG, tmpCEG, ld) ==
    IF ld.W.status # "ok" THEN ld.W
    ELSE IF ld.ret = EXPLOSION_ID_INVALID
    THEN [ld.W EXCEPT
            !.gens[self].explosionIDs = MapPut(@, tag, cegIndex),
            !.gens[self].explosionData = Append(@, tmpCEG)]
    ELSE [ld.W EXCEPT
            !.gens[self].explosionIDs = MapPut(@, tag, cegIndex),
            !.gens[self].explosionData =
                IF numCEGs > 1 THEN Remap(@, numCEGs, cegIndex, tmpCEG) ELSE @]

\* the end of Reload's else branch, ld being the result of Load
ReloadFinish(self, tag, numCEGs, cegIndex, oldCEG, tmpCEG, ld) ==
    IF ld.W.status # "ok" THEN ld.W
    ELSE IF ld.ret = EXPLOSION_ID_INVALID
    THEN [ld.W EXCEPT
            !.gens[self].explosionIDs = MapPut(@, tag, cegIndex),
            !.gens[self].explosionData =
                [Append(@, tmpCEG) EXCEPT ![cegIndex + 1] = oldCEG]]
    ELSE [ld.W EXCEPT
            !.gens[self].explosionIDs = MapPut(@, tag, cegIndex),
            !.gens[self].explosionData =
                IF numCEGs > 1 THEN Remap(@, numCEGs, cegIndex, tmpCEG) ELSE @]

\* Reload's else branch from the erasure of the tag on
ReloadAt(W, self, tag, numCEGs, cegIndex, oldCEG, tmpCEG) ==
    ReloadFinish(self, tag, numCEGs, cegIndex, oldCEG, tmpCEG,
                 Load([W EXCEPT
                         !.gens[self].explosionIDs = MapErase(@, tag),
                         !.gens[self].explosionData =
                             SubSeq([@ EXCEPT ![cegIndex + 1] = tmpCEG],
                                    1, numCEGs - 1)],
                      self, tag))

\* the else branch of Reload: a single tag
ReloadSingle(W, self, tag) ==
    IF tag \notin DOMAIN W.gens[self].explosionIDs THEN W
    ELSE ReloadAt(W, self, tag, Len(W.gens[self].explosionData),
                  W.gens[self].explosionIDs[tag],
                  W.gens[self].explosionData[W.gens[self].explosionIDs[tag] + 1],
                  W.gens[self].explosionData[Len(W.gens[self].explosionData)])

Reload(W, self, tag) ==
    IF W.status # "ok" THEN W
    ELSE IF W.gens[self].cls # "CCustomExplosionGenerator" THEN W
    ELSE IF tag = <<>>
    THEN ReloadAll(ClearCache(Unload(W, self), self), self,
                   SortedKeys(DOMAIN W.gens[self].explosionIDs), 1)
    ELSE ReloadSingle(W, self, tag)

(***************************************************************************)
(* CExplosionGeneratorHandler::ReloadGenerators                             *)
(***************************************************************************)
\* the key of the first element of the std::map egs behind the key k, 0 for
\* egs.end(); generator IDs begin at 1, so egs.begin() is FirstFrom(egs, 0)
FirstFrom(egs, k) ==
    IF {j \in DOMAIN egs : j > k} = {} THEN 0
    ELSE CHOOSE j \in DOMAIN egs : j > k /\ \A i \in DOMAIN egs : i > k => j <= i

\* a loop over the keys the map held before each Reload
RECURSIVE ReloadEachSnapshot(_, _, _, _)
ReloadEachSnapshot(W, tag, k, visited) ==
    IF W.status # "ok" \/ k = 0 THEN [W |-> W, visited |-> visited]
    ELSE IF k \notin DOMAIN W.egs
    THEN [W |-> Fail(W, "ub"),
          visited |-> Append(visited, [id |-> k, live |-> FALSE])]
    ELSE ReloadEachSnapshot(Reload(W, W.egs[k], tag), tag,
                            FirstFrom(W.egs, k),
                            Append(visited, [id |-> k, live |-> TRUE]))

RECURSIVE ReloadEach(_, _, _, _)
\* ++egsIt after (egsIt->second)->Reload(this, tag) left the world W1: an
\* iterator to an erased element is invalid
ReloadNext(W1, tag, k, visited) ==
    IF W1.status = "ok" /\ k \notin DOMAIN W1.egs
    THEN [W |-> Fail(W1, "ub"), visited |-> visited]
    ELSE ReloadEach(W1, tag, FirstFrom(W1.egs, k), visited)

\* the loop of ReloadGenerators with egsIt at the key k; visited lists the
\* generators Reload was called on, and whether they were live
ReloadEach(W, tag, k, visited) ==
    IF W.status # "ok" \/ k = 0 THEN [W |-> W, visited |-> visited]
    ELSE IF ~W.gens[W.egs[k]].live
    THEN [W |-> Fail(W, "ub"),
          visited |-> Append(visited, [id |-> k, live |-> FALSE])]
    ELSE ReloadNext(Reload(W, W.egs[k], tag), tag, k,
                    Append(visited, [id |-> k, live |-> TRUE]))

\* globalCEG->Reload(this, tag) after the loop ended as r
ReloadGlobal(r, tag) ==
    [W |-> Reload(r.W, GlobalCEG, tag), visited |-> r.visited]

\* ReloadGenerators(tag), root being what ParseExplosionTables reads
ReloadGenerators(W, root, tag) ==
    IF W.status # "ok" THEN [W |-> W, visited |-> <<>>]
    ELSE ReloadGlobal(ReloadEach([W EXCEPT !.root = root], tag,
                                 FirstFrom(W.egs, 0), <<>>), tag)

(***************************************************************************)
(* Values of the interpreter.  A float is a rational [n, d], a special      *)
(* value [special], or, where the result has no exact rational form, the    *)
(* uninterpreted term [f, a] of the operation and its arguments.            *)
(***************************************************************************)
IsRat(v) == DOMAIN v = {"n", "d"}
Sym(f, args) == [f |-> f, a |-> args]
Special(name) == [special |-> name]
Uninit == [uninit |-> TRUE]
FromInt(i) == Rat(i, 1)

FAdd(a, b) ==
    IF IsRat(a) /\ IsRat(b) THEN Rat(a.n * b.d + b.n * a.d, a.d * b.d)
    ELSE Sym("add", <<a, b>>)
FSub(a, b) ==
    IF IsRat(a) /\ IsRat(b) THEN Rat(a.n * b.d - b.n * a.d, a.d * b.d)
    ELSE Sym("sub", <<a, b>>)
FMul(a, b) ==
    IF IsRat(a) /\ IsRat(b) THEN Rat(a.n * b.n, a.d * b.d)
    ELSE Sym("mul", <<a, b>>)
\* IEEE division: x/0 is an infinity, 0/0 is NaN
FDiv(a, b) ==
    IF IsRat(a) /\ IsRat(b)
    THEN IF b.n # 0 THEN Rat(a.n * b.d, a.d * b.n)
         ELSE IF a.n = 0 THEN Special("nan")
         ELSE IF a.n > 0 THEN Special("inf") ELSE Special("-inf")
    ELSE Sym("div", <<a, b>>)
\* math::floor
FFloor(a) == IF IsRat(a) THEN FromInt(a.n \div a.d) ELSE Sym("floor", <<a>>)
\* math::sin
FSin(a) == IF a = Zero THEN Zero ELSE Sym("sin", <<a>>)
\* math::pow, exact for the exponents 0, 1, 2
FPow(a, b) ==
    IF IsRat(a) /\ IsRat(b) /\ b.d = 1 /\ b.n \in 0..2
    THEN Rat(Pow(a.n, b.n), Pow(a.d, b.n))
    ELSE Sym("pow", <<a, b>>)
\* (int) val: truncation towards zero (kept as a value with d = 1)
ToInt(a) ==
    IF IsRat(a)
    THEN IF a.n >= 0 THEN FromInt(a.n \div a.d)
         ELSE FromInt(-((-a.n) \div a.d))
    ELSE Sym("int", <<a>>)
\* (unsigned char) of an int
ToUChar(i) == IF IsRat(i) THEN FromInt(i.n % 256) ELSE Sym("uchar", <<i>>)

\* SafeDivide(a, b)
SafeDivide(a, b) == IF b = Zero THEN a ELSE FDiv(a, b)

(***************************************************************************)
(* ExecuteExplosionCode: the effect of one instruction on the interpreter   *)
(* state [val, ptr, buffer, writes, fault].  rnd is the value drawn by      *)
(* gu->RandFloat(), junk what an unset register happens to hold.            *)
(***************************************************************************)
NumRegisters == 16

ExecInit ==
    [val |-> Zero, ptr |-> NullPtr,
     buffer |-> [i \in 0..(NumRegisters - 1) |-> Uninit],
     writes |-> <<>>, fault |-> "none"]

Write(offset, kind, value) ==
    [offset |-> offset, kind |-> kind, value |-> value]

\* buffer[k] as read
ReadRegister(st, k, junk) ==
    IF st.buffer[k] = Uninit THEN junk ELSE st.buffer[k]

\* the register operations with a YANK that keeps val
ExecRegisterOpKeep(st, ins, junk) ==
    IF ins.arg \notin DOMAIN st.buffer THEN [st EXCEPT !.fault = "register"]
    ELSE CASE ins.op = "OP_YANK" -> [st EXCEPT !.buffer[ins.arg] = st.val]
           [] ins.op = "OP_MULTIPLY" ->
                [st EXCEPT !.val = FMul(@, ReadRegister(st, ins.arg, junk))]
           [] ins.op = "OP_ADDBUFF"  ->
                [st EXCEPT !.val = FAdd(@, ReadRegister(st, ins.arg, junk))]
           [] ins.op = "OP_POWBUFF"  ->
                [st EXCEPT !.val = FPow(@, ReadRegister(st, ins.arg, junk))]

ExecRegisterOp(st, ins, junk) ==
    LET k == ins.arg
        r == ReadRegister(st, k, junk)
    IN  IF k \notin DOMAIN st.buffer THEN [st EXCEPT !.fault = "register"]
        ELSE CASE ins.op = "OP_YANK" ->
                    [st EXCEPT !.buffer[k] = st.val, !.val = Zero]
               [] ins.op = "OP_MULTIPLY" -> [st EXCEPT !.val = FMul(@, r)]
               [] ins.op = "OP_ADDBUFF"  -> [st EXCEPT !.val = FAdd(@, r)]
               [] ins.op = "OP_POWBUFF"  -> [st EXCEPT !.val = FPow(@, r)]

ExecInstr(st, ins, damage, spawnIndex, dir, rnd, junk) ==
    LET op == ins.op
        a  == ins.arg
    IN  CASE op = "OP_STOREI" ->
               [st EXCEPT !.writes = Append(@, Write(a, "int", ToInt(st.val))),
                          !.val = Zero]
          [] op = "OP_STOREF" ->
               [st EXCEPT !.writes = Append(@, Write(a, "float", st.val)),
                          !.val = Zero]
          [] op = "OP_STOREC" ->
               [st EXCEPT !.writes =
                              Append(@, Write(a, "uchar", ToUChar(ToInt(st.val)))),
                          !.val = Zero]
          [] op = "OP_ADD"    -> [st EXCEPT !.val = FAdd(@, a)]
          [] op = "OP_RAND"   -> [st EXCEPT !.val = FAdd(@, FMul(rnd, a))]
          [] op = "OP_DAMAGE" -> [st EXCEPT !.val = FAdd(@, FMul(damage, a))]
          [] op = "OP_INDEX"  ->
               [st EXCEPT !.val = FAdd(@, FMul(FromInt(spawnIndex), a))]
          [] op = "OP_LOADP"  -> [st EXCEPT !.ptr = a]
          [] op = "OP_STOREP" ->
               [st EXCEPT !.writes = Append(@, Write(a, "pointer", st.ptr)),
                          !.ptr = NullPtr]
          [] op = "OP_DIR"    ->
               [st EXCEPT !.writes = Append(@, Write(a, "float3", dir))]
          [] op = "OP_SAWTOOTH" ->
               [st EXCEPT !.val = FSub(@, FMul(a, FFloor(FDiv(st.val, a))))]
          [] op = "OP_DISCRETE" ->
               [st EXCEPT !.val = FMul(a, FFloor(SafeDivide(st.val, a)))]
          [] op = "OP_SINE"   -> [st EXCEPT !.val = FMul(a, FSin(st.val))]
          [] op = "OP_POW"    -> [st EXCEPT !.val = FPow(@, a)]
          [] op \in RegisterOps -> ExecRegisterOp(st, ins, junk)
          [] OTHER -> [st EXCEPT !.fault = "opcode"]

\* default: assert(false); break; on the state st that ExecInstr left.  With
\* NDEBUG the assert is empty and the loop goes on behind the tag.
AssertFalse(st, nd) ==
    IF st.fault = "opcode" /\ nd THEN [st EXCEPT !.fault = "none"] ELSE st


(***************************************************************************)
(* CCustomExplosionGenerator::Explosion.  A height is an integer, a mask    *)
(* the set of its bits; an instance is [class, spawnIndex, writes, fault],  *)
(* the writes being those of ExecuteExplosionCode on the new object.        *)
(***************************************************************************)
\* a > b on floats that are rationals
FGreater(a, b) == a.n * b.d > b.n * a.d

\* a classification by the altitude alone
GetFlagsFromAltitude(height, altitude) ==
    IF altitude >= 20 THEN {"SPW_AIR"}
    ELSE IF altitude >= -1 THEN {"SPW_GROUND"}
    ELSE {}

\* a classification whose ranges overlap
GetFlagsFromRanges(height, altitude) ==
    (IF height > 0 /\ altitude >= 20 THEN {"SPW_AIR"} ELSE {})
        \cup (IF height > 0 /\ altitude >= -1 THEN {"SPW_GROUND"} ELSE {})
        \cup (IF height > -5 /\ altitude >= -1 THEN {"SPW_WATER"} ELSE {})
        \cup (IF height <= -5 /\ altitude >= -1 THEN {"SPW_UNDERWATER"} ELSE {})

GetFlagsFromHeight(height, altitude) ==
    IF height > 0 /\ altitude >= 20 THEN {"SPW_AIR"}
    ELSE IF height > 0 /\ altitude >= -1 THEN {"SPW_GROUND"}
    ELSE IF height > -5 /\ altitude >= -1 THEN {"SPW_WATER"}
    ELSE IF height <= -5 /\ altitude >= -1 THEN {"SPW_UNDERWATER"}
    ELSE {}

\* for (;;) switch (*(code++)) from instruction i of pcode on; every
\* gu->RandFloat() of the run draws rnd
RECURSIVE RunCode(_, _, _, _, _, _, _, _)
RunCode(st, pcode, i, damage, spawnIndex, dir, rnd, junk) ==
    IF st.fault # "none" \/ pcode[i].op = "OP_END" THEN st
    ELSE RunCode(ExecInstr(st, pcode[i], damage, spawnIndex, dir, rnd, junk),
                 pcode, i + 1, damage, spawnIndex, dir, rnd, junk)

ExecuteExplosionCode(pcode, damage, spawnIndex, dir, rnd, junk) ==
    RunCode(ExecInit, pcode, 1, damage, spawnIndex, dir, rnd, junk)

\* (psi.projectileClass)->CreateInstance(): an object no program ran on and
\* Init was not called on
CreateInstance(projectileClass) ==
    [class |-> projectileClass, spawnIndex |-> -1, writes |-> <<>>,
     fault |-> "none", runs |-> 0, initAfter |-> -1]

\* ExecuteExplosionCode(&psi.code[0], damage, (char*) projectile, c, dir) has
\* returned, st being the interpreter at return
Populate(projectile, c, st) ==
    [projectile EXCEPT !.spawnIndex = c, !.writes = @ \o st.writes,
                       !.fault = st.fault, !.runs = @ + 1]

\* projectile->Init(pos, owner); initAfter is the number of runs it found
InitInstance(projectile) == [projectile EXCEPT !.initAfter = projectile.runs]

\* a turn of the loop that calls Init before the interpreter
NewInstanceInitFirst(psi, c, st) ==
    Populate(InitInstance(CreateInstance(psi.projectileClass)), c, st)

\* CreateInstance, ExecuteExplosionCode, Init: st is the interpreter at return
NewInstance(psi, c, st) ==
    InitInstance(Populate(CreateInstance(psi.projectileClass), c, st))

\* for (int c = 0; c < psi.count; c++) from c on
RECURSIVE SpawnInstances(_, _, _, _, _, _, _)
SpawnInstances(psi, c, damage, dir, rnd, junk, made) ==
    IF c >= psi.count THEN made
    ELSE SpawnInstances(psi, c + 1, damage, dir, rnd, junk,
             Append(made,
                    NewInstance(psi, c,
                                ExecuteExplosionCode(psi.code, damage, c, dir,
                                                     rnd, junk))))

\* the body of the loop over spawnInfo: the instances made of one spawn-kind
SpawnKind(psi, flags, particleSaturation, damage, dir, rnd, junk) ==
    IF psi.flags \cap flags = {} THEN <<>>
    ELSE IF FGreater(particleSaturation, FromInt(1)) THEN <<>>
    ELSE SpawnInstances(psi, 0, damage, dir, rnd, junk, <<>>)

\* Explosion once the identifier is an index of explosionData; created
\* holds the instances of each spawn-kind
ExplosionOf(cegData, flags, hit, particleSaturation, damage, dir, rnd, junk) ==
    [ret     |-> TRUE,
     flags   |-> flags \cup (IF hit THEN {"SPW_UNIT"} ELSE {"SPW_NO_UNIT"}),
     created |-> [a \in DOMAIN cegData.projectileSpawn |->
                     SpawnKind(cegData.projectileSpawn[a],
                               flags \cup (IF hit THEN {"SPW_UNIT"}
                                           ELSE {"SPW_NO_UNIT"}),
                               particleSaturation, damage, dir, rnd, junk)],
     groundFlash |-> /\ "SPW_GROUND" \in flags
                     /\ cegData.groundFlash.ttl > 0
                     /\ cegData.groundFlash.flashSize > 1,
     std     |-> cegData.useDefaultExplosions]

\* what Explosion does without an explosion of its own
NoExplosion(ret, std) ==
    [ret |-> ret, flags |-> {}, created |-> <<>>, groundFlash |-> FALSE,
     std |-> std]

\* Explosion after EXPLOSION_ID_SPAWNER was replaced.  An identifier is
\* unsigned: the negative ones of the model are above every size.
ExplosionAt(explosionData, explosionID, height, groundHeight, hit, particleSaturation, damage, dir, rnd, junk) ==
    IF explosionID < 0 \/ explosionID >= Len(explosionData)
    THEN NoExplosion(FALSE, FALSE)
    ELSE ExplosionOf(explosionData[explosionID + 1],
                     GetFlagsFromHeight(height, height - groundHeight),
                     hit, particleSaturation, damage, dir, rnd, junk)

\* an Explosion that takes every identifier above the store for the last entry
ExplosionClamped(W, self, explosionID, height, groundHeight, hit, particleSaturation, damage, dir, rnd, junk) ==
    IF explosionID = EXPLOSION_ID_STANDARD THEN NoExplosion(TRUE, TRUE)
    ELSE IF explosionID = EXPLOSION_ID_INVALID THEN NoExplosion(FALSE, FALSE)
    ELSE ExplosionAt(W.gens[self].explosionData,
                     IF explosionID < 0
                        \/ explosionID >= Len(W.gens[self].explosionData)
                     THEN Len(W.gens[self].explosionData) - 1
                     ELSE explosionID,
                     height, groundHeight, hit, particleSaturation, damage,
                     dir, rnd, junk)

\* height is pos.y, groundHeight the ground below pos
Explosion(W, self, explosionID, height, groundHeight, hit, particleSaturation, damage, dir, rnd, junk) ==
    IF explosionID = EXPLOSION_ID_STANDARD THEN NoExplosion(TRUE, TRUE)
    ELSE IF explosionID = EXPLOSION_ID_INVALID THEN NoExplosion(FALSE, FALSE)
    ELSE ExplosionAt(W.gens[self].explosionData,
                     IF explosionID = EXPLOSION_ID_SPAWNER
                     THEN Len(W.gens[self].explosionData) - 1
                     ELSE explosionID,
                     height, groundHeight, hit, particleSaturation, damage,
                     dir, rnd, junk)


(***************************************************************************)
(* State.                                                                   *)
(*   gens, explosionGenerators, numLoadedGenerators, explTblRoot, libcHex,  *)
(*   status: the world (see above), gens[GlobalCEG] being globalCEG         *)
(*   call: the last call made on globalCEG: its name, tag and return value  *)
(*         and the world it was made in; for Explosion the tag is the       *)
(*         identifier, and the position, the hit, the saturation and the    *)
(*         instances made are kept with it                                  *)
(*   script, ftype, foffset: the field ParseExplosionCode is called for     *)
(*   code: the opcode stream it produced                                    *)
(*   phase, ip, exec, damage, spawnIndex: the run of ExecuteExplosionCode   *)
(*         on that stream (ip: index of the next instruction)               *)
(*   flight: the Explosion of globalCEG that has been entered and has not   *)
(*         returned: the entry it bound and its place in the spawn loop     *)
(*   ndebug: the build defines NDEBUG, so that assert expands to nothing.   *)
(*         It matters for a stream with an unknown tag alone, which no     *)
(*         stream of the compiler is; the specifications that run compiled *)
(*         streams fix it.                                                  *)
(*   sound: the CSound object, its sound thread and a thread that calls it  *)
(***************************************************************************)
VARIABLES gens, explosionGenerators, numLoadedGenerators, explTblRoot,
          libcHex, status, call,
          script, ftype, foffset, code, phase, ip, exec, damage, spawnIndex,
          flight, ndebug, sound

worldVars == <<gens, explosionGenerators, numLoadedGenerators, explTblRoot,
               libcHex, status>>
codeVars == <<script, ftype, foffset, code, phase, ip, exec, damage,
              spawnIndex, flight, ndebug, sound>>
vars == <<worldVars, call, codeVars>>

World ==
    [gens |-> gens, egs |-> explosionGenerators, num |-> numLoadedGenerators,
     root |-> explTblRoot, hex |-> libcHex, status |-> status, depth |-> 0]

SetWorld(W) ==
    /\ gens' = W.gens
    /\ explosionGenerators' = W.egs
    /\ numLoadedGenerators' = W.num
    /\ explTblRoot' = W.root
    /\ libcHex' = W.hex
    /\ status' = W.status

\* CExplosionGeneratorHandler(): globalCEG exists, nothing is loaded
InitWorld(root, hex) ==
    /\ gens = <<NewGenerator("CCustomExplosionGenerator", 0)>>
    /\ explosionGenerators = << >>
    /\ numLoadedGenerators = 0
    /\ explTblRoot = root
    /\ libcHex = hex
    /\ status = "ok"

NoCall == [op |-> "none"]

\* no Explosion is under way
NoFlight == [active |-> FALSE]

\* no CSound object exists
NoSound == [exists |-> FALSE]

(***************************************************************************)
(* Inputs of the compiler and the interpreter.                              *)
(***************************************************************************)
ScriptChars == {"d", "y", "x", "0", "1", "2", ".", "-", " ", ",", "?"}

Strings(n) == UNION {[1..k -> ScriptChars] : k \in 0..n}

SampleScripts == {
    <<"d", "2", "r", "0", ".", "5">>,
    <<"1", ".", "5">>,
    <<"y", "0", "x", "0">>,
    <<"d", "0", "x", "1">>,
    <<"d", "i", "r">>,
    <<"d", "i", "r", ";", "1">>,
    <<"i", "1", "r", "1", "m", "2">>,
    <<"1", "k", "2", "s", "1", "p", "2">>,
    <<"1", "y", "1", "a", "1", "q", "1">>,
    <<"1", " ", "2", ",", "d", "1", ",">>,
    <<"0", "x", ".", "1", "p", "1">>,
    <<"y", "2", "0">>,
    <<"2", "y", "1", "5", "x", "1", "5">>,
    <<"1", ",", "2", ",", "d", "1">>,
    <<"1", "m", "0">>,
    <<"m", "0">>,
    <<"1", "k", "0">>,
    <<"1", "x", "0">> }

PointerScripts == {
    StrStd, StrCustom \o <<":", "A">>, <<"x">>, <<"d", "i", "r">>,
    <<"t", "e", "x", ";", "1">> }

ScalarTypes == {TInt, TFloat, TUChar, TBool, TShort}
CompositeTypes == {TFloat3, TDerived, TArray}
PointerTypes == {TGenerator, TTexture, TGroundFX, TColorMap, TString}

CodeInputs ==
    ((ScalarTypes \cup CompositeTypes) \X (Strings(MaxLen) \cup SampleScripts))
    \cup (PointerTypes \X PointerScripts)

FieldOffsets == {16, 40}
Damages == {FromInt(10)}
SpawnIndices == {0, 2}
RandFloats == {Zero, Rat(1, 2)}
Junk == {Zero, FromInt(7)}
Dir == [float3 |-> "dir"]

\* psi.code of a spawn with this one property: the stream and OP_END
Program == Append(code, Instr("OP_END", 0))

(***************************************************************************)
(* Specification of the compiler and the interpreter: one field is          *)
(* compiled, and the stream, if any, is executed on a fresh instance.       *)
(***************************************************************************)
InitCode ==
    /\ \E hex \in BOOLEAN : InitWorld(NullRoot, hex)
    /\ call = NoCall
    /\ \E inp \in CodeInputs : ftype = inp[1] /\ script = inp[2]
    /\ foffset \in FieldOffsets
    /\ code = <<>>
    /\ phase = "input"
    /\ ip = 0
    /\ exec = ExecInit
    /\ damage = Zero
    /\ spawnIndex = 0
    /\ flight = NoFlight
    /\ ndebug = FALSE
    /\ sound = NoSound

\* the state after ParseExplosionCode returned r, or was left by a throw
Compiled(r) ==
    /\ SetWorld(r.W)
    /\ code' = r.code
    /\ phase' = IF r.W.status = "ok" THEN "compiled" ELSE "failed"

\* ParseExplosionCode(&psi, offset, type, script, code)
Compile ==
    /\ phase = "input"
    /\ Compiled(ParseExplosionCode(World, GlobalCEG, foffset, ftype, script,
                                   <<>>))
    /\ UNCHANGED <<call, script, ftype, foffset, ip, exec, damage, spawnIndex,
                   flight, ndebug, sound>>

\* ExecuteExplosionCode(&psi.code[0], damage, instance, c, dir): entry
ExecStart ==
    /\ phase = "compiled"
    /\ phase' = "exec"
    /\ ip' = 1
    /\ exec' = ExecInit
    /\ damage' \in Damages
    /\ spawnIndex' \in SpawnIndices
    /\ UNCHANGED <<worldVars, call, script, ftype, foffset, code, flight,
                   ndebug, sound>>

\* one turn of for (;;) switch (*(code++)) on an instruction other than END
ExecStep ==
    /\ phase = "exec"
    /\ Program[ip].op # "OP_END"
    /\ \E rnd \in RandFloats, junk \in Junk :
          exec' = AssertFalse(ExecInstr(exec, Program[ip], damage, spawnIndex,
                                        Dir, rnd, junk), ndebug)
    /\ ip' = ip + 1
    /\ phase' = IF exec'.fault = "none" THEN "exec" ELSE "fault"
    /\ UNCHANGED <<worldVars, call, script, ftype, foffset, code, damage,
                   spawnIndex, flight, ndebug, sound>>

\* case OP_END: return
ExecEnd ==
    /\ phase = "exec"
    /\ Program[ip].op = "OP_END"
    /\ phase' = "done"
    /\ UNCHANGED <<worldVars, call, script, ftype, foffset, code, ip, exec,
                   damage, spawnIndex, flight, ndebug, sound>>

NextCode == Compile \/ ExecStart \/ ExecStep \/ ExecEnd

SpecCode == InitCode /\ [][NextCode]_vars

(***************************************************************************)
(* Inputs of the cache: the tags of the game's explosion definitions and    *)
(* the tables gamedata/explosions.lua may hold for them.                    *)
(***************************************************************************)
\* Load and Reload are called while fewer generator objects than this exist
\* and fewer nested generators than this are tracked
MaxGenerators == 3

TagA == <<"A">>
TagB == <<"B">>
TagC == <<"C">>
Tags == {TagA, TagB, TagC}

Spawn(name, class, props) ==
    [name |-> name, isTable |-> TRUE, class |-> class, count |-> 1,
     flags |-> {}, props |-> props]
Prop(name, scr) == [name |-> name, script |-> scr]

Definition(spawns, gnd) ==
    [valid |-> TRUE, spawns |-> spawns, groundflash |-> gnd,
     useDefaultExplosions |-> FALSE]

\* one projectile with one scalar property
Def1 ==
    Definition(<<Spawn("spark", "CSimpleProjectile",
                       <<Prop("alpha", <<"1">>)>>)>>,
               NoGroundFlash)
\* the same definition after an edit: another script, and a ground flash
Def2 ==
    Definition(<<Spawn("spark", "CSimpleProjectile",
                       <<Prop("alpha", <<"d", "2">>),
                         Prop("speed", <<"1", ",", "2">>)>>)>>,
               [ttl |-> 5, flashSize |-> 1, flags |-> {}])
\* a definition that spawns the generator of tag B
DefNested ==
    Definition(<<Spawn("sub", "CExpGenSpawner",
                       <<Prop("delay", <<"1">>),
                         Prop("explosionGenerator",
                              StrCustom \o <<":">> \o TagB)>>)>>,
               NoGroundFlash)

Roots ==
    {NullRoot} \cup
    {Root([t \in Tags |->
              IF t = TagA THEN a ELSE IF t = TagB THEN b ELSE Def1]) :
        a \in {Def1, Def2, DefNested, InvalidTable},
        b \in {Def1, InvalidTable}}

(***************************************************************************)
(* Specification of the cache: the handler is constructed, and the game     *)
(* calls Load and Reload on globalCEG while the definitions change on disk. *)
(***************************************************************************)
Call(op, tag, ret) == [op |-> op, tag |-> tag, ret |-> ret, pre |-> World]

InitCache ==
    /\ \E root \in Roots : InitWorld(root, TRUE)
    /\ call = NoCall
    /\ script = <<>>
    /\ ftype = TFloat
    /\ foffset = 16
    /\ code = <<>>
    /\ phase = "cache"
    /\ ip = 0
    /\ exec = ExecInit
    /\ damage = Zero
    /\ spawnIndex = 0
    /\ flight = NoFlight
    /\ ndebug = FALSE
    /\ sound = NoSound

\* the state after globalCEG->Load(handler, tag) returned r
Loaded(tag, r) ==
    /\ SetWorld(r.W)
    /\ call' = Call("Load", tag, r.ret)

\* globalCEG->Load(handler, tag, false)
LoadTag ==
    /\ status = "ok"
    /\ Len(gens) < MaxGenerators
    /\ Len(gens[GlobalCEG].spawnExplGens) < MaxGenerators
    /\ \E tag \in Tags : Loaded(tag, Load(World, GlobalCEG, tag))
    /\ UNCHANGED codeVars

\* globalCEG->Reload(handler, tag), tag empty or not
ReloadTag ==
    /\ status = "ok"
    /\ Len(gens) < MaxGenerators
    /\ Len(gens[GlobalCEG].spawnExplGens) < MaxGenerators
    /\ \E tag \in Tags \cup {<<>>} :
          /\ SetWorld(Reload(World, GlobalCEG, tag))
          /\ call' = Call("Reload", tag, 0)
    /\ UNCHANGED codeVars

\* ParseExplosionTables(): the definitions are read again
ParseExplosionTables ==
    /\ status = "ok"
    /\ explTblRoot' \in Roots
    /\ explTblRoot' # explTblRoot
    /\ call' = NoCall
    /\ UNCHANGED <<gens, explosionGenerators, numLoadedGenerators, libcHex,
                   status, codeVars>>

NextCache == LoadTag \/ ReloadTag \/ ParseExplosionTables

SpecCache == InitCache /\ [][NextCache]_vars

(***************************************************************************)
(* Properties of the cache.  They speak of globalCEG before and after the   *)
(* last call: call.pre is the world the call was made in.                   *)
(***************************************************************************)
IDs(W) == W.gens[GlobalCEG].explosionIDs
Data(W) == W.gens[GlobalCEG].explosionData
Cached(W, tag) == tag \in DOMAIN IDs(W)
DataOf(W, tag) == Data(W)[IDs(W)[tag] + 1]

\* an instruction, a stream and a compiled definition without the identity
\* of the generator objects they point to
AnonInstr(ins) ==
    IF ins.op = "OP_LOADP" /\ ins.arg.ptr = "generator"
    THEN Instr("OP_LOADP", [ptr |-> "generator"])
    ELSE ins
AnonCode(c) == [j \in DOMAIN c |-> AnonInstr(c[j])]
AnonSpawn(psi) == [psi EXCEPT !.code = AnonCode(@)]
AnonData(d) ==
    [d EXCEPT !.projectileSpawn = [k \in DOMAIN @ |-> AnonSpawn(@[k])]]

\* what a generator with an empty cache compiles from the definition of tag
FreshWorld(W) ==
    [gens |-> <<NewGenerator("CCustomExplosionGenerator", 0)>>,
     egs |-> << >>, num |-> 0, root |-> W.root, hex |-> W.hex,
     status |-> "ok", depth |-> 0]
FreshData(W, tag) == Data(Load(FreshWorld(W), GlobalCEG, tag).W)[1]

ReloadedAll == call.op = "Reload" /\ call.tag = <<>> /\ status = "ok"
ReloadedOne ==
    call.op = "Reload" /\ call.tag # <<>> /\ Cached(call.pre, call.tag)
LoadedAgain == call.op = "Load" /\ Cached(call.pre, call.tag)

\* C1: after Reload with an empty tag, the definitions of all cached tags
\* being valid, every tag maps to the identifier it had before, and the
\* entry at that identifier is what its definition compiles to.
C1_ReloadAllPreservesIds ==
    (ReloadedAll /\ \A t \in DOMAIN IDs(call.pre) : SubTable(call.pre, t).valid)
    => \A t \in DOMAIN IDs(call.pre) :
          /\ Cached(World, t)
          /\ IDs(World)[t] = IDs(call.pre)[t]
          /\ AnonData(DataOf(World, t)) = AnonData(FreshData(call.pre, t))

\* C2: after Reload of a cached tag whose definition is valid, the
\* identifiers are those of before, the entry of the tag is what its
\* definition compiles to now, and the entries of the other tags are those
\* of before.
C2_ReloadInstallsNewData ==
    (ReloadedOne /\ status = "ok" /\ SubTable(call.pre, call.tag).valid)
    => /\ IDs(World) = IDs(call.pre)
       /\ AnonData(DataOf(World, call.tag))
              = AnonData(FreshData(call.pre, call.tag))
       /\ \A t \in DOMAIN IDs(call.pre) \ {call.tag} :
              DataOf(World, t) = DataOf(call.pre, t)

\* C3: after Reload of a cached tag whose definition table is invalid, the
\* call has returned, and the identifiers of all tags and the whole store
\* (its size and every entry) are those of before.
C3_FailedReloadRollsBack ==
    (ReloadedOne /\ ~SubTable(call.pre, call.tag).valid)
    => /\ status = "ok"
       /\ IDs(World) = IDs(call.pre)
       /\ Data(World) = Data(call.pre)

\* a failed Reload of the tag at index 0 of a store of three entries, the
\* last of which differs from the entry of the tag
C3_Witness ==
    /\ ReloadedOne
    /\ ~SubTable(call.pre, call.tag).valid
    /\ Len(Data(call.pre)) = 3
    /\ IDs(call.pre)[call.tag] = 0
    /\ Data(call.pre)[1] # Data(call.pre)[3]
    /\ Data(World) = Data(call.pre)

\* C4: after Reload with an empty tag, every tag cached before is cached
\* under the identifier it had, and a tag whose definition table is invalid
\* keeps the data it had.
C4_ReloadAllFailSoft ==
    ReloadedAll
    => \A t \in DOMAIN IDs(call.pre) :
          /\ Cached(World, t)
          /\ IDs(World)[t] = IDs(call.pre)[t]
          /\ ~SubTable(call.pre, t).valid
                => DataOf(World, t) = DataOf(call.pre, t)

\* a Load that returned an identifier, followed at once by a Load of the
\* same tag: the second returns what the first returned, in the same world
SecondLoad ==
    (/\ call.op = "Load"
     /\ call.ret # EXPLOSION_ID_INVALID
     /\ call'.op = "Load"
     /\ call'.tag = call.tag)
    => call'.ret = call.ret /\ UNCHANGED worldVars

\* C5: a Load of a tag that is cached returns the identifier the cache
\* holds for it and changes nothing (explosionIDs, explosionData,
\* spawnExplGens, the generators); and a Load that follows a Load of the
\* same tag returns the identifier the first one returned.
C5_LoadIdempotent ==
    /\ [](LoadedAgain => (call.ret = IDs(call.pre)[call.tag]
                            /\ World = call.pre))
    /\ [][SecondLoad]_vars

\* a second Load of a tag, in a store of two entries and with a nested
\* generator tracked
C5_Witness ==
    /\ LoadedAgain
    /\ call.ret = 1
    /\ Len(Data(World)) = 2
    /\ gens[GlobalCEG].spawnExplGens # <<>>

(***************************************************************************)
(* Properties of the compiler and the interpreter.                          *)
(***************************************************************************)
LegalScalarTypes == {TInt, TFloat, TUChar, TBool}

\* the text is the keyword dir
IsKeyword(scr) == Substr(scr, 0, Find(scr, ";", 0)) = <<"d", "i", "r">>

\* ParseExplosionCode has returned or was left
Parsed == phase # "input"
\* ParseExplosionCode has returned
Returned == phase \in {"compiled", "exec", "fault", "done"}

RegisterOperands == {code[i].arg : i \in {j \in DOMAIN code :
                                            code[j].op \in RegisterOps}}
StoreIndices == {i \in DOMAIN code : code[i].op \in StoreOps}

\* C6: every operand of YANK, MULTIPLY, ADDBUFF and POWBUFF that
\* ParseExplosionCode emits lies in 0..15, and ExecuteExplosionCode, run on
\* the stream, accesses no register outside buffer[0..15].
C6_RegisterOperandsInFile ==
    Returned => /\ RegisterOperands \subseteq 0..(NumRegisters - 1)
                /\ exec.fault # "register"

\* the comma-separated sub-expressions of a text
RECURSIVE Pieces(_)
Pieces(scr) ==
    IF Find(scr, ",", 0) = Npos THEN <<scr>>
    ELSE <<SubSeq(scr, 1, Find(scr, ",", 0))>>
         \o Pieces(SubSeq(scr, Find(scr, ",", 0) + 2, Len(scr)))

\* the members of a composite type, or the elements of an array type, in
\* the order they are visited: offset and type
LeafMembers(type) ==
    IF type.kind = "array"
    THEN [i \in 1..type.size |->
             [offset |-> type.elemSize * (i - 1), type |-> type.elemType]]
    ELSE AllMembers(type)

\* the streams of the sub-expressions 1..k, each compiled for its member
RECURSIVE PieceCode(_, _, _)
PieceCode(ms, ps, k) ==
    IF k = 0 THEN <<>>
    ELSE ParseExplosionCode(World, GlobalCEG, foffset + ms[k].offset,
                            ms[k].type, ps[k], PieceCode(ms, ps, k - 1)).code

\* C7: a composite or array field compiled with k non-empty sub-expressions,
\* k less than the number of members, gets the streams of the k
\* sub-expressions for its first k members and nothing more.
C7_ShortCompositeStopsEarly ==
    (/\ Returned
     /\ ftype \in CompositeTypes
     /\ ~IsKeyword(script)
     /\ \A i \in DOMAIN Pieces(script) : Pieces(script)[i] # <<>>
     /\ Len(Pieces(script)) < Len(LeafMembers(ftype)))
    => code = PieceCode(LeafMembers(ftype), Pieces(script),
                        Len(Pieces(script)))

\* the kind of write a store opcode of a field of this type makes
StoreKind(id) ==
    CASE id \in {"crInt", "crBool"} -> "int"
      [] id = "crFloat" -> "float"
      [] id = "crUChar" -> "uchar"

\* C8: the stream of a scalar field at offset foffset, compiled from a text
\* other than the keyword and holding no register operand outside the
\* register file, when run to OP_END has made exactly one write, at
\* foffset and of the kind of the field's store opcode; and whatever was
\* compiled, val is 0 right after every STOREI, STOREF and STOREC.
C8_OneWriteAndReset ==
    /\ (/\ phase = "done"
        /\ ftype \in LegalScalarTypes
        /\ ~IsKeyword(script))
       => /\ Len(exec.writes) = 1
          /\ exec.writes[1].offset = foffset
          /\ exec.writes[1].kind = StoreKind(ftype.id)
    /\ (/\ phase \in {"exec", "done"}
        /\ ip > 1
        /\ Program[ip - 1].op \in StoreOps)
       => exec.val = Zero

\* an unsigned char field compiled from several tokens, among them register
\* operations, and run to its end
C8_Witness ==
    /\ phase = "done"
    /\ ftype = TUChar
    /\ Len(code) > 3
    /\ \E i \in DOMAIN code : code[i].op = "OP_YANK"
    /\ Len(exec.writes) = 1
    /\ exec.writes[1].kind = "uchar"
    /\ exec.val = Zero

\* The tokens of a text, read by the grammar of the expressions: spaces,
\* then a mnemonic directly followed by a decimal literal ([-]digits
\* [.digits]; an unsigned integer below 16 after y, x, a, q), or a bare
\* decimal literal (ADD).  [ok, instrs]
RECURSIVE Tokens(_, _)
TokensAfter(scr, p, op, lit) ==
    IF lit.len = 0 THEN [ok |-> FALSE, instrs |-> <<>>]
    ELSE [ok |-> Tokens(scr, p + lit.len).ok,
          instrs |-> <<Instr(op, lit.val)>> \o Tokens(scr, p + lit.len).instrs]

Literal(scr, p, op) ==
    IF CharAt(scr, p + 1) = " " THEN [val |-> 0, len |-> 0]
    ELSE IF op \notin RegisterOps THEN strtod(SubSeq(scr, p + 1, Len(scr)), FALSE)
    ELSE IF ~isdigit(CharAt(scr, p + 1))
            \/ strtol(SubSeq(scr, p + 1, Len(scr))).val >= NumRegisters
    THEN [val |-> 0, len |-> 0]
    ELSE strtol(SubSeq(scr, p + 1, Len(scr)))

Tokens(scr, p) ==
    IF p >= Len(scr) THEN [ok |-> TRUE, instrs |-> <<>>]
    ELSE IF scr[p + 1] = " " THEN Tokens(scr, p + 1)
    ELSE IF MnemonicOp(scr[p + 1]) # "OP_END"
    THEN TokensAfter(scr, p + 1, MnemonicOp(scr[p + 1]),
                     Literal(scr, p + 1, MnemonicOp(scr[p + 1])))
    ELSE IF isdigit(scr[p + 1]) \/ scr[p + 1] \in {".", "-"}
    THEN TokensAfter(scr, p, "OP_ADD", Literal(scr, p, "OP_ADD"))
    ELSE [ok |-> FALSE, instrs |-> <<>>]

\* C9: a text made of n tokens compiles, for a scalar field, to the n
\* instructions of the tokens in their order, followed by the store.
C9_TokenOrderPreserved ==
    (/\ Parsed
     /\ ftype \in LegalScalarTypes
     /\ Tokens(script, 0).ok)
    => /\ Returned
       /\ code = Append(Tokens(script, 0).instrs,
                        Instr(StoreOp(ftype.id), foffset))

\* C10: for a scalar field of a legal type and any text other than the
\* keyword, ParseExplosionCode returns with a stream that ends with the
\* store of the field's type at the field's offset and holds no other
\* store.
C10_OneTrailingStore ==
    (/\ Parsed
     /\ ftype \in LegalScalarTypes
     /\ ~IsKeyword(script))
    => /\ Returned
       /\ StoreIndices = {Len(code)}
       /\ code[Len(code)] = Instr(StoreOp(ftype.id), foffset)

\* case OP_DIR changes nothing but the destination
DirStep ==
    (phase = "exec" /\ Program[ip].op = "OP_DIR")
    => /\ exec'.val = exec.val
       /\ exec'.ptr = exec.ptr
       /\ exec'.buffer = exec.buffer
       /\ exec'.writes = Append(exec.writes, Write(Program[ip].arg, "float3", Dir))

\* C11: for a field of any type, a text that is the keyword dir up to the
\* first ';' compiles, without a content error, to the one instruction
\* DIR(offset); run, it writes the direction at the offset and leaves the
\* accumulator, the pointer and the registers as they were.
C11_DirKeyword ==
    /\ []((Parsed /\ IsKeyword(script))
            => /\ Returned
               /\ status = "ok"
               /\ code = <<Instr("OP_DIR", foffset)>>
               /\ phase = "done"
                    => /\ exec.writes = <<Write(foffset, "float3", Dir)>>
                       /\ exec.val = Zero)
    /\ [][DirStep]_vars

\* the keyword followed by more text, on a field of an illegal scalar type,
\* compiled and run
C11_Witness ==
    /\ phase = "done"
    /\ ftype = TShort
    /\ script = <<"d", "i", "r", ";", "1">>
    /\ exec.writes = <<Write(foffset, "float3", Dir)>>

\* the instruction about to be executed
Current == Program[ip]
InFile(k) == k \in 0..(NumRegisters - 1)

\* case OP_YANK on a register of the file
YankStep ==
    (phase = "exec" /\ Current.op = "OP_YANK" /\ InFile(Current.arg))
    => /\ exec'.buffer = [exec.buffer EXCEPT ![Current.arg] = exec.val]
       /\ exec'.val = Zero

\* case OP_MULTIPLY, OP_ADDBUFF, OP_POWBUFF on a register that was set
ReadStep ==
    (/\ phase = "exec"
     /\ Current.op \in RegisterOps \ {"OP_YANK"}
     /\ InFile(Current.arg)
     /\ exec.buffer[Current.arg] # Uninit)
    => /\ exec'.buffer = exec.buffer
       /\ exec'.val =
            CASE Current.op = "OP_MULTIPLY" ->
                     FMul(exec.val, exec.buffer[Current.arg])
              [] Current.op = "OP_ADDBUFF" ->
                     FAdd(exec.val, exec.buffer[Current.arg])
              [] Current.op = "OP_POWBUFF" ->
                     FPow(exec.val, exec.buffer[Current.arg])

\* no other instruction writes a register
OtherStep ==
    (phase = "exec" /\ Current.op # "OP_YANK") => exec'.buffer = exec.buffer

\* C12: YANK(k), k a register of the file, stores val into register k, sets
\* val to 0 and leaves the other registers as they were; no other
\* instruction changes a register, and MULTIPLY(k), ADDBUFF(k), POWBUFF(k)
\* combine val with the value register k holds; the program of "y0x0"
\* stores 0.
C12_YankThenZero ==
    /\ [][YankStep /\ ReadStep /\ OtherStep]_vars
    /\ []((/\ phase = "done"
           /\ ftype \in LegalScalarTypes
           /\ script = <<"y", "0", "x", "0">>)
          => exec.writes[1].value = Zero)

\* the program of a text that yanks 2 into register 15 and multiplies by
\* it, run to its end
C12_Witness ==
    /\ phase = "done"
    /\ script = <<"2", "y", "1", "5", "x", "1", "5">>
    /\ exec.buffer[15] = FromInt(2)
    /\ exec.writes[1].value = Zero


(***************************************************************************)
(* Specification of the explosions: definitions with gated spawn-kinds are  *)
(* loaded into globalCEG, and the game calls Explosion with identifiers of  *)
(* every kind, above and below ground and water, on and off a unit.         *)
(***************************************************************************)
SpawnGated(name, class, props, count, keys) ==
    [name |-> name, isTable |-> TRUE, class |-> class, count |-> count,
     flags |-> keys, props |-> props]

\* three spawn-kinds behind different masks
DefGated ==
    Definition(<<SpawnGated("bubble", "CSimpleProjectile",
                            <<Prop("ttl", <<"d", "1">>)>>, 2,
                            {"water", "underwater"}),
                 SpawnGated("hit", "CSimpleProjectile", <<>>, 1, {"unit"}),
                 SpawnGated("spark", "CSimpleProjectile",
                            <<Prop("alpha", <<"i", "1">>)>>, 3, {"ground"})>>,
               NoGroundFlash)
\* the standard explosion on top of one spawn-kind that is never made
DefDefault ==
    [Definition(<<SpawnGated("none", "CSimpleProjectile", <<>>, 0,
                             {"ground", "air", "nounit"})>>,
                [ttl |-> 5, flashSize |-> 2, flags |-> {"air"}])
        EXCEPT !.useDefaultExplosions = TRUE]

ExplosionRoots ==
    {Root([t \in Tags |->
              IF t = TagA THEN DefGated ELSE IF t = TagB THEN Def2
              ELSE DefDefault])}

ExplosionIDs ==
    {EXPLOSION_ID_SPAWNER, EXPLOSION_ID_STANDARD, EXPLOSION_ID_INVALID,
     0, 2, 3}
\* <<pos.y, ground height>>: in the air, on the ground, in and under water,
\* and below the ground
Positions == {<<30, 0>>, <<10, 0>>, <<-2, -20>>, <<-10, -20>>, <<10, 15>>}
Saturations == {FromInt(1), Rat(3, 2)}

InitExplosion ==
    /\ \E root \in ExplosionRoots : InitWorld(root, TRUE)
    /\ call = NoCall
    /\ script = <<>>
    /\ ftype = TFloat
    /\ foffset = 16
    /\ code = <<>>
    /\ phase = "explosion"
    /\ ip = 0
    /\ exec = ExecInit
    /\ damage = Zero
    /\ spawnIndex = 0
    /\ flight = NoFlight
    /\ ndebug = FALSE
    /\ sound = NoSound

\* the state after globalCEG->Explosion(...) returned r
Exploded(explosionID, height, groundHeight, hit, particleSaturation, r) ==
    call' = [op |-> "Explosion", tag |-> explosionID, ret |-> r.ret,
             pre |-> World, height |-> height, groundHeight |-> groundHeight,
             hit |-> hit, particleSaturation |-> particleSaturation,
             out |-> r]

\* globalCEG->Explosion(explosionID, pos, dir, damage, radius, gfxMod, owner,
\* hit)
Explode ==
    /\ status = "ok"
    /\ \E explosionID \in ExplosionIDs, pos \in Positions, hit \in BOOLEAN,
          particleSaturation \in Saturations, dmg \in Damages :
          Exploded(explosionID, pos[1], pos[2], hit, particleSaturation,
                   Explosion(World, GlobalCEG, explosionID, pos[1], pos[2],
                             hit, particleSaturation, dmg, Dir, Rat(1, 2),
                             Zero))
    /\ UNCHANGED <<worldVars, codeVars>>

NextExplosion == LoadTag \/ Explode

SpecExplosion == InitExplosion /\ [][NextExplosion]_vars

(***************************************************************************)
(* Properties of Explosion.                                                 *)
(***************************************************************************)
\* the last call was an Explosion with an index of explosionData
ValidExplosion ==
    /\ call.op = "Explosion"
    /\ call.tag \in 0..(Len(Data(call.pre)) - 1)

SpawnInfo == Data(call.pre)[call.tag + 1].projectileSpawn

\* the flags of the last explosion: the bit of the height and the unit bit
ExplosionFlags ==
    GetFlagsFromHeight(call.height, call.height - call.groundHeight)
        \cup (IF call.hit THEN {"SPW_UNIT"} ELSE {"SPW_NO_UNIT"})

Saturated == FGreater(call.particleSaturation, FromInt(1))

\* the last explosion was on the ground, resp. under water, off any unit
GroundExplosion ==
    call.height = 10 /\ call.groundHeight = 0 /\ ~call.hit
UnderwaterExplosion ==
    call.height = -10 /\ call.groundHeight = -20 /\ ~call.hit

\* C13 as stated: count instances of every spawn-kind whose mask meets the
\* flags of the explosion, none of the others
C13_GatedCountsAlways ==
    ValidExplosion =>
        \A a \in DOMAIN SpawnInfo :
            Len(call.out.created[a]) =
                IF SpawnInfo[a].flags \cap ExplosionFlags # {}
                THEN SpawnInfo[a].count ELSE 0

\* C13: Explosion with a valid custom identifier creates, of every
\* spawn-kind, exactly count instances when the mask of the spawn-kind meets
\* the flags of the explosion and the projectile handler is not saturated
\* (particleSaturation <= 1), and none otherwise; count = 3 behind the ground
\* flag gives 3 instances on the ground and none under water.
C13_GatedCounts ==
    ValidExplosion =>
        /\ \A a \in DOMAIN SpawnInfo :
              Len(call.out.created[a]) =
                  IF SpawnInfo[a].flags \cap ExplosionFlags # {} /\ ~Saturated
                  THEN SpawnInfo[a].count ELSE 0
        /\ \A a \in DOMAIN SpawnInfo :
              (SpawnInfo[a].count = 3 /\ SpawnInfo[a].flags = {"SPW_GROUND"})
              => /\ (GroundExplosion /\ ~Saturated)
                      => Len(call.out.created[a]) = 3
                 /\ UnderwaterExplosion => Len(call.out.created[a]) = 0

\* a ground explosion of the gated definition, not saturated: three sparks
\* with the indices 0, 1, 2 and nothing else
C13_Witness ==
    /\ ValidExplosion
    /\ GroundExplosion
    /\ ~Saturated
    /\ Len(SpawnInfo) = 3
    /\ Len(call.out.created[1]) = 0
    /\ Len(call.out.created[2]) = 0
    /\ Len(call.out.created[3]) = 3
    /\ call.out.created[3][3].writes = <<Write(16, "float", FromInt(2))>>

\* the same explosion while the projectile handler is saturated
C13_SaturatedWitness ==
    /\ ValidExplosion
    /\ GroundExplosion
    /\ Saturated
    /\ Len(SpawnInfo) = 3
    /\ Len(call.out.created[3]) = 0


(***************************************************************************)
(* Properties of the interpreter's cursor.                                  *)
(***************************************************************************)
\* the byte of the stream at which instruction k of Program starts
RECURSIVE Cursor(_)
Cursor(k) == IF k = 1 THEN 0 ELSE Cursor(k - 1) + OpWidth(Program[k - 1].op)

\* one turn of the interpreter's loop reads the instruction at the cursor,
\* leaves the stream alone and either returns (END) or moves the cursor by
\* the width of the instruction to an instruction not behind END
LinearStep ==
    phase = "exec"
    => /\ code' = code
       /\ IF Current.op = "OP_END"
          THEN phase' = "done" /\ ip' = ip
          ELSE /\ phase' = "exec"
               /\ ip' \in (ip + 1)..Len(Program)
               /\ Cursor(ip)' = Cursor(ip) + OpWidth(Current.op)

\* the stream ends with its only END
EndsWithEnd ==
    phase \in {"compiled", "exec", "done"}
    => \A k \in 1..Len(Program) :
          (Program[k].op = "OP_END") = (k = Len(Program))

\* C14: on every program stored by Load, ExecuteExplosionCode reads the
\* stream front to back, moving its cursor by the width of each instruction,
\* never reads behind END, never changes the stream and returns at END.
C14_LinearUntilEnd ==
    /\ []EndsWithEnd
    /\ [](phase = "exec" => ip \in 1..Len(Program))
    /\ [][LinearStep]_vars

\* the same for the programs whose register instructions stay in the
\* register file
C14_LinearInFile ==
    /\ []EndsWithEnd
    /\ [](phase = "exec" => ip \in 1..Len(Program))
    /\ [][(phase = "exec" /\ Current.op \in RegisterOps
                => InFile(Current.arg)) => LinearStep]_vars


(***************************************************************************)
(* Properties of the compiler's errors.                                     *)
(***************************************************************************)
\* the field is of a basic type that is not int, float, uchar or bool, and
\* the text is not the keyword
Unsupported ==
    /\ ftype.kind = "basic"
    /\ ftype \notin LegalScalarTypes
    /\ ~IsKeyword(script)

\* a stream that holds the instructions of an earlier field
EarlierCode == <<Instr("OP_ADD", FromInt(1)), Instr("OP_STOREF", 16)>>

\* C15: compiling a field of a basic type other than int, float, uchar and
\* bool, with a text other than dir, throws a content error and appends
\* nothing to the opcode stream, empty or not.
C15_UnsupportedTypeThrows ==
    /\ (Unsupported /\ Parsed)
           => (phase = "failed" /\ status = "throw" /\ code = <<>>)
    /\ (Unsupported /\ phase = "input")
           => /\ ParseExplosionCode(World, GlobalCEG, foffset, ftype, script,
                                    EarlierCode).code = EarlierCode
              /\ ParseExplosionCode(World, GlobalCEG, foffset, ftype, script,
                                    EarlierCode).W.status = "throw"

C15_Witness ==
    /\ phase = "failed"
    /\ ftype = TShort
    /\ script = <<"1", ".", "5">>
    /\ status = "throw"
    /\ code = <<>>


(***************************************************************************)
(* Specification of the life of globalCEG: definitions that nest other      *)
(* generators, or that hold schema errors, are loaded and reloaded, and the *)
(* nested generators are unloaded and the cache is cleared, in any order.   *)
(***************************************************************************)
\* a definition that spawns a generator no class is registered for
DefUnresolved ==
    Definition(<<Spawn("sub", "CExpGenSpawner",
                       <<Prop("delay", <<"1">>),
                         Prop("explosionGenerator", <<"x">>)>>)>>,
               NoGroundFlash)
\* a spawn-kind of an unknown class before a sound one
DefBadClass ==
    Definition(<<Spawn("bad", "CNoSuchClass", <<Prop("alpha", <<"1">>)>>),
                 Spawn("spark", "CSimpleProjectile",
                       <<Prop("alpha", <<"1">>)>>)>>,
               NoGroundFlash)
\* a member that is not configurable and a name that is no member, after a
\* sound property
DefBadProp ==
    Definition(<<Spawn("spark", "CSimpleProjectile",
                       <<Prop("alpha", <<"1">>), Prop("id", <<"2">>),
                         Prop("nofield", <<"3">>)>>)>>,
               NoGroundFlash)
\* a field of type short, between a sound property and a sound spawn-kind
DefBadType ==
    Definition(<<Spawn("chunk", "CShortProjectile",
                       <<Prop("alpha", <<"1">>), Prop("size", <<"2">>)>>),
                 Spawn("spark", "CSimpleProjectile",
                       <<Prop("alpha", <<"1">>)>>)>>,
               NoGroundFlash)

NestedRoot ==
    Root([t \in Tags |->
             IF t = TagA THEN DefNested ELSE IF t = TagB THEN Def1
             ELSE DefUnresolved])
SchemaRoot ==
    Root([t \in Tags |->
             IF t = TagA THEN DefBadClass ELSE IF t = TagB THEN DefBadProp
             ELSE DefBadType])

InitLife ==
    /\ \E root \in {NestedRoot, SchemaRoot} : InitWorld(root, TRUE)
    /\ call = NoCall
    /\ script = <<>>
    /\ ftype = TFloat
    /\ foffset = 16
    /\ code = <<>>
    /\ phase = "life"
    /\ ip = 0
    /\ exec = ExecInit
    /\ damage = Zero
    /\ spawnIndex = 0
    /\ flight = NoFlight
    /\ ndebug = FALSE
    /\ sound = NoSound

\* globalCEG->Unload(handler)
CallUnload ==
    /\ status = "ok"
    /\ SetWorld(Unload(World, GlobalCEG))
    /\ call' = Call("Unload", <<>>, 0)
    /\ UNCHANGED codeVars

\* globalCEG->ClearCache()
CallClearCache ==
    /\ status = "ok"
    /\ SetWorld(ClearCache(World, GlobalCEG))
    /\ call' = Call("ClearCache", <<>>, 0)
    /\ UNCHANGED codeVars

NextLife == LoadTag \/ ReloadTag \/ CallUnload \/ CallClearCache

SpecLife == InitLife /\ [][NextLife]_vars


(***************************************************************************)
(* Properties of the life of globalCEG.                                     *)
(***************************************************************************)
\* the last call was a Load of a tag that was not cached and has a table
FreshLoad ==
    /\ call.op = "Load"
    /\ ~Cached(call.pre, call.tag)
    /\ SubTable(call.pre, call.tag).valid

\* a spawn-kind with the one property alpha = 1
SparkInfo(class) ==
    [projectileClass |-> class,
     code  |-> <<Instr("OP_ADD", FromInt(1)), Instr("OP_STOREF", 16),
                 Instr("OP_END", 0)>>,
     count |-> 1, flags |-> {}]

\* what is left of the definitions of SchemaRoot without their errors
SoundSpawns(tag) ==
    IF tag = TagC
    THEN <<SparkInfo("CShortProjectile"), SparkInfo("CSimpleProjectile")>>
    ELSE <<SparkInfo("CSimpleProjectile")>>

\* Load returned the next identifier and registered the sound spawn-kinds
\* and fields of the definition under it
RegisteredSound ==
    /\ status = "ok"
    /\ call.ret = Len(Data(call.pre))
    /\ Cached(World, call.tag)
    /\ IDs(World)[call.tag] = call.ret
    /\ Len(Data(World)) = call.ret + 1
    /\ Data(World)[call.ret + 1].projectileSpawn = SoundSpawns(call.tag)

\* C16: Load of a definition with a spawn-kind of an unknown class, a
\* property that names no configurable field, or a field of an unsupported
\* type skips that spawn-kind or field, registers the rest and returns a
\* valid identifier.
C16_SchemaErrorsSkipped ==
    (explTblRoot = SchemaRoot /\ FreshLoad) => RegisteredSound

\* the same for the properties that name no configurable field alone
C16_BadPropertySkipped ==
    (explTblRoot = SchemaRoot /\ FreshLoad /\ call.tag = TagB)
        => RegisteredSound



\* the last call was a Load of a tag whose table is missing (no root, or no
\* such table) or invalid
InvalidLoad ==
    /\ call.op = "Load"
    /\ ~SubTable(call.pre, call.tag).valid

\* the last call left globalCEG and the generators as they were
WorldKept ==
    /\ gens = call.pre.gens
    /\ explosionGenerators = call.pre.egs
    /\ numLoadedGenerators = call.pre.num
    /\ status = "ok"

\* C17 as stated: Load of a tag without a valid table returns the invalid
\* identifier and changes nothing
C17_InvalidTableAlwaysInvalid ==
    InvalidLoad => (call.ret = EXPLOSION_ID_INVALID /\ WorldKept)

\* C17: Load of a tag that is not cached and has no valid table returns the
\* invalid identifier, and leaves explosionIDs, explosionData and the
\* tracked nested generators as they were; for a tag that is cached Load
\* returns the cached identifier whatever has become of its table.
C17_InvalidTableRegistersNothing ==
    InvalidLoad
    => /\ WorldKept
       /\ call.ret = IF Cached(call.pre, call.tag)
                     THEN IDs(call.pre)[call.tag]
                     ELSE EXPLOSION_ID_INVALID

\* an invalid table is loaded into a cache that holds another definition
C17_Witness ==
    /\ InvalidLoad
    /\ ~Cached(call.pre, call.tag)
    /\ Len(Data(call.pre)) > 0
    /\ call.ret = EXPLOSION_ID_INVALID
    /\ Data(World) = Data(call.pre)


\* the nested generators globalCEG tracks in the world W
Tracked(W) == W.gens[GlobalCEG].spawnExplGens

\* the handles the last call passes to UnloadGenerator: Unload, also the one
\* at the head of Reload of everything, walks spawnExplGens
Passed ==
    IF call.op = "Unload" \/ (call.op = "Reload" /\ call.tag = <<>>)
    THEN Tracked(call.pre) ELSE <<>>

\* the generator of handle h had been released before the last call
ReleasedBefore(h) == h # NULL /\ ~call.pre.gens[h].live

\* the generators LoadGenerator has created
Acquired == 2..Len(gens)

\* C18: over any sequence of Load, Reload, Unload and ClearCache on
\* globalCEG no handle, NULL included, is passed to UnloadGenerator twice,
\* be it in two calls or in one, and after Unload every generator acquired
\* through LoadGenerator has been released.
C18_NestedReleasedOnce ==
    explTblRoot = NestedRoot
    => /\ \A i \in DOMAIN Passed : ~ReleasedBefore(Passed[i])
       /\ \A i, j \in DOMAIN Passed : i # j => Passed[i] # Passed[j]
       /\ call.op = "Unload" => \A h \in Acquired : ~gens[h].live


\* C19: Unload changes neither explosionIDs nor explosionData, so every
\* identifier resolves to the opcode streams it resolved to before;
\* ClearCache empties both, and a cache is emptied by ClearCache alone,
\* called by the game or by Reload of everything.
C19_UnloadKeepsCache ==
    /\ call.op = "Unload"
           => (IDs(World) = IDs(call.pre) /\ Data(World) = Data(call.pre))
    /\ call.op = "ClearCache"
           => (IDs(World) = << >> /\ Data(World) = <<>>)
    /\ (call.op # "none" /\ Data(call.pre) # <<>> /\ Data(World) = <<>>)
           => (call.op = "ClearCache"
               \/ (call.op = "Reload" /\ call.tag = <<>>))

\* Unload has released a nested generator of a cache of two definitions
C19_Witness ==
    /\ call.op = "Unload"
    /\ status = "ok"
    /\ Len(Data(World)) = 2
    /\ DOMAIN IDs(World) = {TagA, TagB}
    /\ \E h \in Acquired : call.pre.gens[h].live /\ ~gens[h].live


(***************************************************************************)
(* Properties of the compiler's resource handles.                           *)
(***************************************************************************)
\* the name of the resource: the text before ';'
ResourceName == Substr(script, 0, Find(script, ";", 0))

\* the field is a nested generator and no generator class is registered for
\* the prefix of the name, so that LoadGenerator returns NULL
UnresolvedGenerator ==
    /\ ftype = TGenerator
    /\ ~IsKeyword(script)
    /\ GeneratorClass(IF Find(ResourceName, ":", 0) # Npos
                      THEN Substr(ResourceName, 0, Find(ResourceName, ":", 0))
                      ELSE ResourceName) = "NULL"

\* C20: when the text of a nested-generator field names a generator that
\* LoadGenerator cannot resolve, ParseExplosionCode emits no LOADP and no
\* STOREP for the field, adds nothing to the tracked nested generators and
\* returns, so that the remaining fields are compiled.
C20_UnresolvedSkipsField ==
    (Parsed /\ UnresolvedGenerator)
    => /\ Returned
       /\ status = "ok"
       /\ \A i \in DOMAIN code : code[i].op \notin {"OP_LOADP", "OP_STOREP"}
       /\ Tracked(World) = <<>>

\* what the compiler does for such a field: a NULL pointer is stored into
\* the field and tracked
C20_NullStoredAndTracked ==
    (Parsed /\ UnresolvedGenerator)
    => /\ Returned
       /\ status = "ok"
       /\ code = PointerCode(GeneratorPtr(NULL), foffset)
       /\ Tracked(World) = <<NULL>>


(***************************************************************************)
(* Specification of an Explosion among changes of the cache.  Explosion     *)
(* binds cegData = explosionData[explosionID] and spawnInfo =                *)
(* cegData.projectileSpawn by reference and reads both in every turn of its  *)
(* spawn loop; nothing in the class keeps Load, Reload, Unload or            *)
(* ClearCache on the same generator from running between two turns, be it    *)
(* on another thread or from the code an instance runs in Init.              *)
(***************************************************************************)
runVars ==
    <<script, ftype, foffset, code, phase, ip, exec, damage, spawnIndex,
      ndebug, sound>>

RaceRoot ==
    Root([t \in Tags |->
             IF t = TagA THEN DefGated ELSE IF t = TagB THEN Def2 ELSE Def1])

InitRace ==
    /\ InitWorld(RaceRoot, TRUE)
    /\ call = NoCall
    /\ script = <<>>
    /\ ftype = TFloat
    /\ foffset = 16
    /\ code = <<>>
    /\ phase = "race"
    /\ ip = 0
    /\ exec = ExecInit
    /\ damage = Zero
    /\ spawnIndex = 0
    /\ flight = NoFlight
    /\ ndebug = FALSE
    /\ sound = NoSound

\* Explosion up to the spawn loop, for an identifier below the size of the
\* store, on the ground, off any unit
ExplosionEnter ==
    /\ status = "ok"
    /\ ~flight.active
    /\ \E explosionID \in 0..(Len(Data(World)) - 1) :
          flight' = [active |-> TRUE, explosionID |-> explosionID,
                     cegData |-> Data(World)[explosionID + 1],
                     a |-> 1, created |-> <<>>]
    /\ UNCHANGED <<worldVars, call, runVars>>

\* the entry bound by the Explosion in flight is in the store as it was
Intact ==
    /\ flight.explosionID < Len(Data(World))
    /\ Data(World)[flight.explosionID + 1] = flight.cegData

\* what a read through cegData yields: the entry while it is intact;
\* otherwise the reference dangles or names the entry of another
\* definition, and the read yields the old contents or, if there are any,
\* the present ones (or faults, see ExplosionFault).  A store rebuilt with
\* equal contents is taken for intact.
Visible ==
    IF Intact THEN {flight.cegData}
    ELSE {flight.cegData}
         \cup (IF flight.explosionID < Len(Data(World))
               THEN {Data(World)[flight.explosionID + 1]} ELSE {})

\* one turn of the spawn loop: a < spawnInfo.size(), psi = spawnInfo[a], and
\* the instances of psi
ExplosionSpawn ==
    /\ status = "ok"
    /\ flight.active
    /\ \E seen \in Visible :
          /\ flight.a <= Len(seen.projectileSpawn)
          /\ flight' = [flight EXCEPT
                           !.a = @ + 1,
                           !.created =
                               Append(@, SpawnKind(
                                   seen.projectileSpawn[flight.a],
                                   {"SPW_GROUND", "SPW_NO_UNIT"}, FromInt(1),
                                   FromInt(10), Dir, Rat(1, 2), Zero))]
    /\ UNCHANGED <<worldVars, call, runVars>>

\* the loop ends: a >= spawnInfo.size(); Explosion returns
ExplosionReturn ==
    /\ status = "ok"
    /\ flight.active
    /\ \E seen \in Visible : flight.a > Len(seen.projectileSpawn)
    /\ flight' = NoFlight
    /\ UNCHANGED <<worldVars, call, runVars>>

\* a read through the dangling reference faults
ExplosionFault ==
    /\ status = "ok"
    /\ flight.active
    /\ ~Intact
    /\ status' = "ub"
    /\ UNCHANGED <<gens, explosionGenerators, numLoadedGenerators,
                   explTblRoot, libcHex, call, codeVars>>

NextRace ==
    \/ LoadTag \/ ReloadTag \/ CallUnload \/ CallClearCache
    \/ ExplosionEnter \/ ExplosionSpawn \/ ExplosionReturn \/ ExplosionFault

SpecRace == InitRace /\ [][NextRace]_vars

\* a turn of the Explosion in flight
FlightStep == flight.active /\ (flight' # flight \/ status' = "ub")

\* C21: in every interleaving of an Explosion with Load, Reload, Unload and
\* ClearCache on the same generator, whenever the Explosion reads its
\* definition entry the entry is in the store, where it was and as it was
\* when the Explosion bound it.
C21_ExplosionReadsIntact == [][FlightStep => Intact]_vars


(***************************************************************************)
(* Specification of the interpreter on streams that were not compiled:      *)
(* streams of up to MaxStream instructions, among them a tag that is none   *)
(* of the opcodes, in a build with or without NDEBUG.                       *)
(***************************************************************************)
MaxStream == 3

\* a byte that is no opcode; it has no operand, the next byte is the next tag
Unknown == Instr("OP_UNKNOWN", 0)

StreamInstrs ==
    {Instr("OP_ADD", FromInt(1)), Instr("OP_YANK", 0),
     Instr("OP_STOREF", 16), Unknown}

Streams == UNION {[1..k -> StreamInstrs] : k \in 1..MaxStream}

InitDecode ==
    /\ InitWorld(NullRoot, TRUE)
    /\ call = NoCall
    /\ script = <<>>
    /\ ftype = TFloat
    /\ foffset = 16
    /\ code \in Streams
    /\ phase = "compiled"
    /\ ip = 0
    /\ exec = ExecInit
    /\ damage = Zero
    /\ spawnIndex = 0
    /\ flight = NoFlight
    /\ ndebug \in BOOLEAN
    /\ sound = NoSound

NextDecode == ExecStart \/ ExecStep \/ ExecEnd

SpecDecode == InitDecode /\ [][NextDecode]_vars

\* the interpreter is at a tag that is none of the opcodes
AtUnknown == phase = "exec" /\ Current = Unknown

\* C22: when ExecuteExplosionCode meets a tag that is none of the opcodes it
\* stops in an error state at that instruction: it decodes nothing behind
\* it and writes nothing more into the instance.
C22_UnknownOpcodeFatal ==
    /\ [][AtUnknown => (phase' = "fault" /\ exec'.writes = exec.writes)]_vars
    /\ [][phase = "fault" => (phase' = "fault" /\ exec' = exec)]_vars

\* the same in a build without NDEBUG
C22_FatalWhenAsserting ==
    /\ [][(AtUnknown /\ ~ndebug)
              => (phase' = "fault" /\ exec'.writes = exec.writes)]_vars
    /\ [][phase = "fault" => (phase' = "fault" /\ exec' = exec)]_vars


(***************************************************************************)
(* Zero operands of SAWTOOTH and DISCRETE, in SpecCode.                     *)
(***************************************************************************)
RECURSIVE NonFinite(_)
\* v is an infinity or NaN: either made by a division, or computed from one
\* by operations that never turn it into a number again
NonFinite(v) ==
    IF "special" \in DOMAIN v THEN TRUE
    ELSE IF "f" \in DOMAIN v /\ v.f \in {"add", "sub", "mul", "floor", "sin"}
    THEN \E i \in DOMAIN v.a : NonFinite(v.a[i])
    ELSE FALSE

\* the interpreter is at a SAWTOOTH or DISCRETE with operand 0
AtZeroOperand ==
    /\ phase = "exec"
    /\ Current.op \in {"OP_SAWTOOTH", "OP_DISCRETE"}
    /\ Current.arg = Zero

\* C23: executing DISCRETE or SAWTOOTH with operand 0 on a finite
\* accumulator leaves a finite accumulator, never NaN or an infinity.
C23_ZeroOperandFinite ==
    [][(AtZeroOperand /\ ~NonFinite(exec.val)) => ~NonFinite(exec'.val)]_vars

\* the part of it that DISCRETE keeps: the accumulator becomes 0
C23_DiscreteZeroIsZero ==
    [][(AtZeroOperand /\ Current.op = "OP_DISCRETE" /\ IsRat(exec.val))
           => exec'.val = Zero]_vars


(***************************************************************************)
(* Determinism of an execution, in SpecCode.                                *)
(***************************************************************************)
NoRand == \A i \in DOMAIN code : code[i].op # "OP_RAND"

\* the execution of the same program with the same damage, spawnIndex and
\* direction on a stack whose leftover contents are zeroes
Reference == ExecuteExplosionCode(Program, damage, spawnIndex, Dir, Zero, Zero)

\* C26: an execution of a compiled program without RAND performs the same
\* writes as any other execution of it with the same damage, spawnIndex and
\* direction, whatever the register file held when it began.
C26_SameWrites ==
    (phase = "done" /\ NoRand) => exec.writes = Reference.writes

\* the same for the programs that set every register before reading it
ReadsUnset(i) ==
    /\ code[i].op \in RegisterOps \ {"OP_YANK"}
    /\ \A j \in 1..(i - 1) : ~(code[j].op = "OP_YANK" /\ code[j].arg = code[i].arg)

C26_SameWritesWhenSet ==
    (phase = "done" /\ NoRand /\ \A i \in DOMAIN code : ~ReadsUnset(i))
        => exec.writes = Reference.writes


(***************************************************************************)
(* The flags of an explosion, in SpecExplosion.                             *)
(***************************************************************************)
HeightFlags == {"SPW_AIR", "SPW_GROUND", "SPW_WATER", "SPW_UNDERWATER"}
UnitFlags == {"SPW_UNIT", "SPW_NO_UNIT"}

\* C24: GetFlagsFromHeight returns at most one of the AIR, GROUND, WATER and
\* UNDERWATER bits and neither unit bit, and the flags Explosion tests the
\* spawn masks against hold that and exactly one of UNIT and NO_UNIT.
C24_HeightFlagsExclusive ==
    ValidExplosion =>
        /\ GetFlagsFromHeight(call.height, call.height - call.groundHeight)
               \in {{}} \cup {{f} : f \in HeightFlags}
        /\ call.out.flags \cap HeightFlags
               = GetFlagsFromHeight(call.height,
                                    call.height - call.groundHeight)
        /\ Cardinality(call.out.flags \cap HeightFlags) <= 1
        /\ call.out.flags \ HeightFlags
               = (IF call.hit THEN {"SPW_UNIT"} ELSE {"SPW_NO_UNIT"})

\* an explosion in the air that hit a unit
C24_Witness ==
    /\ ValidExplosion
    /\ call.height = 30
    /\ call.groundHeight = 0
    /\ call.out.flags = {"SPW_AIR", "SPW_UNIT"}

\* an explosion below the ground has no height bit at all
C24_BelowGround ==
    /\ ValidExplosion
    /\ call.out.flags = {"SPW_NO_UNIT"}


(***************************************************************************)
(* Specification of the global entry points: definitions are loaded by      *)
(* LoadGlobal, reloaded, and exploded.                                      *)
(***************************************************************************)
GlobalTags ==
    {<<>>, TagA, TagC, StrCustom \o <<":">> \o TagA,
     StrCustom \o <<":">> \o TagB}

InitGlobal ==
    /\ \E root \in ExplosionRoots : InitWorld(root, TRUE)
    /\ call = NoCall
    /\ script = <<>>
    /\ ftype = TFloat
    /\ foffset = 16
    /\ code = <<>>
    /\ phase = "global"
    /\ ip = 0
    /\ exec = ExecInit
    /\ damage = Zero
    /\ spawnIndex = 0
    /\ flight = NoFlight
    /\ ndebug = FALSE
    /\ sound = NoSound

\* IExplosionGenerator::LoadGlobal(tag, luaCall)
LoadGlobalTag ==
    /\ status = "ok"
    /\ Len(gens) < MaxGenerators
    /\ Len(gens[GlobalCEG].spawnExplGens) < MaxGenerators
    /\ \E tag \in GlobalTags, luaCall \in BOOLEAN :
          /\ SetWorld(LoadGlobal(World, tag, luaCall).W)
          /\ call' = [op |-> "LoadGlobal", tag |-> tag,
                       ret |-> LoadGlobal(World, tag, luaCall).ret,
                       pre |-> World, luaCall |-> luaCall]
    /\ UNCHANGED codeVars

NextGlobal == LoadGlobalTag \/ ReloadTag \/ Explode

SpecGlobal == InitGlobal /\ [][NextGlobal]_vars


\* the last call was an Explosion with an identifier that is neither
\* reserved nor below the size of the store
AboveStore ==
    /\ call.op = "Explosion"
    /\ call.tag >= 0
    /\ call.tag >= Len(Data(call.pre))

\* C25: Explosion with the invalid identifier, or with an identifier that is
\* not below the size of the store, spawns nothing and returns false;
\* Explosion with the standard identifier runs no program of the store and
\* hands over to the standard generator; LoadGlobal with an empty tag
\* returns the invalid identifier and leaves every cache as it was.
C25_ReservedIdentifiers ==
    /\ (call.op = "Explosion"
           /\ (call.tag = EXPLOSION_ID_INVALID \/ AboveStore))
         => call.out = NoExplosion(FALSE, FALSE)
    /\ (call.op = "Explosion" /\ call.tag = EXPLOSION_ID_STANDARD)
         => (call.out.created = <<>> /\ call.out.std)
    /\ (call.op = "LoadGlobal" /\ call.tag = <<>>)
         => (call.ret = EXPLOSION_ID_INVALID /\ World = call.pre)

\* an identifier just above a store of two definitions is exploded
C25_Witness ==
    /\ AboveStore
    /\ call.tag = 2
    /\ Len(Data(call.pre)) = 2
    /\ ~call.ret

\* LoadGlobal with an empty tag on a cache that holds a definition
C25_EmptyTagWitness ==
    /\ call.op = "LoadGlobal"
    /\ call.tag = <<>>
    /\ call.luaCall
    /\ Len(Data(World)) > 0
    /\ call.ret = EXPLOSION_ID_INVALID


(***************************************************************************)
(* The spawner identifier, in SpecGlobal.                                   *)
(***************************************************************************)
\* the last call compiled the definition of this tag into the store: a
\* LoadGlobal that reached globalCEG with a tag not yet cached, or a Reload
\* of one cached tag
JustCompiled(tag) ==
    /\ tag \in DOMAIN IDs(World)
    /\ \/ /\ call.op = "LoadGlobal"
          /\ call.ret \notin {EXPLOSION_ID_INVALID, EXPLOSION_ID_STANDARD}
          /\ tag \notin DOMAIN IDs(call.pre)
          /\ call.tag \in {tag, StrCustom \o <<":">> \o tag}
       \/ /\ call.op = "Reload"
          /\ call.tag = tag
          /\ tag \in DOMAIN IDs(call.pre)

\* the next call is an Explosion with the spawner identifier
SpawnerExplodes ==
    /\ call'.op = "Explosion"
    /\ call'.tag = EXPLOSION_ID_SPAWNER

\* what the explosion of the entry cegData gives for the arguments of the
\* next call
ExplosionWith(cegData) ==
    ExplosionOf(cegData,
                GetFlagsFromHeight(call'.height,
                                   call'.height - call'.groundHeight),
                call'.hit, call'.particleSaturation,
                CHOOSE dmg \in Damages : TRUE, Dir, Rat(1, 2), Zero)

\* C29: Explosion with the spawner identifier executes the entry that was
\* compiled most recently, and spawns nothing and returns false on an empty
\* store.
C29_SpawnerRunsLastCompiled ==
    /\ [][\A tag \in Tags :
             (JustCompiled(tag) /\ SpawnerExplodes)
                 => call'.out = ExplosionWith(DataOf(World, tag))]_vars
    /\ [][(Data(World) = <<>> /\ SpawnerExplodes)
             => call'.out = NoExplosion(FALSE, FALSE)]_vars

\* what the code does: the spawner identifier names the last entry of the
\* store, whichever was compiled last
C29_SpawnerRunsLastEntry ==
    /\ [][(Data(World) # <<>> /\ SpawnerExplodes)
             => call'.out = ExplosionWith(Data(World)[Len(Data(World))])]_vars
    /\ [][(Data(World) = <<>> /\ SpawnerExplodes)
             => call'.out = NoExplosion(FALSE, FALSE)]_vars


(***************************************************************************)
(* Specification of the cache with ClearCache: the definitions are loaded,  *)
(* reloaded, edited, and the cache is cleared.                              *)
(***************************************************************************)
NextStore == LoadTag \/ ReloadTag \/ ParseExplosionTables \/ CallClearCache

SpecStore == InitCache /\ [][NextStore]_vars

\* explosionIDs of W is injective and its values are the indices of
\* explosionData
Bijection(W) ==
    /\ \A s, t \in DOMAIN IDs(W) : IDs(W)[s] = IDs(W)[t] => s = t
    /\ {IDs(W)[t] : t \in DOMAIN IDs(W)} = 0..(Len(Data(W)) - 1)

\* C27: in every state reached by Load, Reload and ClearCache calls,
\* explosionIDs is injective and its set of values is exactly
\* 0 .. explosionData.size() - 1.
C27_IDsAndStoreInBijection == Bijection(World)

\* a single-tag Reload failed on an invalid table in a store of two
C27_Witness ==
    /\ call.op = "Reload"
    /\ call.tag = TagA
    /\ Len(Data(call.pre)) = 2
    /\ ~SubTable(World, TagA).valid
    /\ IDs(World) = IDs(call.pre)
    /\ TagA \in DOMAIN IDs(World)
    /\ IDs(World)[TagA] = 0

\* the cache was cleared and a definition loaded again
C27_ClearedWitness ==
    /\ call.op = "Load"
    /\ call.ret = 0
    /\ Len(gens[GlobalCEG].spawnExplGens) > 0
    /\ Len(Data(World)) = 1
    /\ numLoadedGenerators > 1


(***************************************************************************)
(* Termination of the tokenizer, in SpecCode.                               *)
(***************************************************************************)
\* C28: for every expression text of a scalar field the tokenizer loop of
\* ParseExplosionCode ends, also on texts where '-' or '.' starts no number.
C28_TokenizerTerminates ==
    (Parsed /\ ftype \in LegalScalarTypes /\ ~IsKeyword(script))
        => status # "hang"

\* the loop ends on every text that holds neither '-' nor '.'
C28_TerminatesOnNumbers ==
    (/\ Parsed
     /\ ftype \in LegalScalarTypes
     /\ ~IsKeyword(script)
     /\ \A i \in DOMAIN script : script[i] \notin {"-", "."})
        => status # "hang"


(***************************************************************************)
(* The instances of an explosion, in SpecExplosion.                         *)
(***************************************************************************)
\* what the interpreter writes into instance c of the spawn-kind psi
WritesOf(psi, c) ==
    ExecuteExplosionCode(psi.code, CHOOSE dmg \in Damages : TRUE, c, Dir,
                         Rat(1, 2), Zero).writes

\* C30: the instances of a spawn-kind are created in the order
\* c = 0 .. count - 1; the interpreter has run exactly once on instance c,
\* with spawnIndex = c, and the instance's Init was called after that run.
C30_PopulateBeforeInit ==
    ValidExplosion =>
        \A a \in DOMAIN SpawnInfo :
            /\ Len(call.out.created[a]) \in {0, SpawnInfo[a].count}
            /\ \A k \in DOMAIN call.out.created[a] :
                  /\ call.out.created[a][k].spawnIndex = k - 1
                  /\ call.out.created[a][k].runs = 1
                  /\ call.out.created[a][k].initAfter = 1
                  /\ call.out.created[a][k].writes = WritesOf(SpawnInfo[a], k - 1)

\* three instances of one spawn-kind were made
C30_Witness ==
    /\ ValidExplosion
    /\ Len(call.out.created[3]) = 3
    /\ call.out.created[3][3].spawnIndex = 2
    /\ call.out.created[3][3].initAfter = 1
    /\ call.out.created[3][1].writes # call.out.created[3][3].writes


(***************************************************************************)
(* The tracked nested generators and the cached programs, in SpecLife.      *)
(***************************************************************************)
\* the generator handles that are operands of OP_LOADP in the programs of
\* explosionData
HandlesOfCode(pcode) ==
    {pcode[i].arg.h :
        i \in {j \in DOMAIN pcode : /\ pcode[j].op = "OP_LOADP"
                                    /\ pcode[j].arg.ptr = "generator"}}

HandlesOfData(cegData) ==
    UNION {HandlesOfCode(cegData.projectileSpawn[a].code) :
              a \in DOMAIN cegData.projectileSpawn}

EmbeddedHandles(W) == UNION {HandlesOfData(Data(W)[d]) : d \in DOMAIN Data(W)}

\* the handles in spawnExplGens, but for the NULL of an unresolved name
TrackedHandles(W) == {Tracked(W)[i] : i \in DOMAIN Tracked(W)} \ {NULL}

\* C31: in every state reached by Load, Reload, Unload and ClearCache,
\* spawnExplGens holds exactly the generator handles that are LOADP operands
\* of the programs in explosionData, and each of them names a generator
\* that has not been released.
C31_TrackedMatchCached ==
    explTblRoot = NestedRoot
    => /\ TrackedHandles(World) = EmbeddedHandles(World)
       /\ \A h \in EmbeddedHandles(World) : gens[h].live

\* after a Load on an empty generator the two do match
C31_MatchAfterFirstLoad ==
    (/\ explTblRoot = NestedRoot
     /\ call.op = "Load"
     /\ call.tag = TagA
     /\ Len(call.pre.gens) = 1)
    => /\ TrackedHandles(World) = EmbeddedHandles(World)
       /\ EmbeddedHandles(World) # {}
       /\ \A h \in EmbeddedHandles(World) : gens[h].live


(***************************************************************************)
(* Specification of nested loading: definitions that spawn the generators   *)
(* of other definitions, of themselves, and of each other.                  *)
(***************************************************************************)
\* a definition that spawns the generator of the definition tag
DefSpawning(tag) ==
    Definition(<<Spawn("sub", "CExpGenSpawner",
                       <<Prop("delay", <<"1">>),
                         Prop("explosionGenerator",
                              StrCustom \o <<":">> \o tag)>>)>>,
               NoGroundFlash)

\* A spawns itself, C spawns B
SelfRoot ==
    Root([t \in Tags |->
             IF t = TagA THEN DefSpawning(TagA) ELSE IF t = TagB THEN Def1
             ELSE DefSpawning(TagB)])
\* B and C spawn each other, A spawns nothing
MutualRoot ==
    Root([t \in Tags |->
             IF t = TagA THEN Def1 ELSE IF t = TagB THEN DefSpawning(TagC)
             ELSE DefSpawning(TagB)])

InitNest ==
    /\ \E root \in {SelfRoot, MutualRoot, NestedRoot} : InitWorld(root, TRUE)
    /\ call = NoCall
    /\ script = <<>>
    /\ ftype = TFloat
    /\ foffset = 16
    /\ code = <<>>
    /\ phase = "nest"
    /\ ip = 0
    /\ exec = ExecInit
    /\ damage = Zero
    /\ spawnIndex = 0
    /\ flight = NoFlight
    /\ ndebug = FALSE
    /\ sound = NoSound

NextNest == LoadTag \/ ReloadTag \/ CallUnload \/ CallClearCache

SpecNest == InitNest /\ [][NextNest]_vars

\* the last call was a Load that compiled the definition of its tag
LoadedNew == call.op = "Load" /\ ~Cached(call.pre, call.tag)

\* C32: Load of a definition that references nested generators returns,
\* having created one generator per reference, also when the definition
\* references itself or two definitions reference each other.
C32_NestedLoadReturns ==
    LoadedNew =>
        /\ status = "ok"
        /\ call.ret # EXPLOSION_ID_INVALID
        /\ Len(gens) - Len(call.pre.gens)
               = Cardinality(HandlesOfData(DataOf(World, call.tag)))

\* it does so where no definition reaches itself
C32_ReturnsWithoutCycle ==
    (LoadedNew /\ explTblRoot = NestedRoot /\ call.tag = TagA)
        => /\ status = "ok"
           /\ call.ret # EXPLOSION_ID_INVALID
           /\ Len(gens) - Len(call.pre.gens) = 1
           /\ HandlesOfData(DataOf(World, call.tag)) = {Len(gens)}


(***************************************************************************)
(* Specification of ReloadGenerators: definitions that spawn generators     *)
(* are loaded, the tables are edited, and all generators are reloaded.      *)
(***************************************************************************)
MaxHeap == 7

\* A spawns B, B spawns C
ChainRoot ==
    Root([t \in Tags |->
             IF t = TagA THEN DefSpawning(TagB)
             ELSE IF t = TagB THEN DefSpawning(TagC) ELSE Def1])
\* A and C spawn B
FanRoot ==
    Root([t \in Tags |->
             IF t = TagB THEN Def1 ELSE DefSpawning(TagB)])
\* A spawns B, whose table is invalid
BrokenRoot ==
    Root([t \in Tags |->
             IF t = TagA THEN DefSpawning(TagB)
             ELSE IF t = TagB THEN InvalidTable ELSE Def1])

ReloadRoots == {ChainRoot, FanRoot, BrokenRoot}

InitReload ==
    /\ \E root \in ReloadRoots : InitWorld(root, TRUE)
    /\ call = NoCall
    /\ script = <<>>
    /\ ftype = TFloat
    /\ foffset = 16
    /\ code = <<>>
    /\ phase = "reload"
    /\ ip = 0
    /\ exec = ExecInit
    /\ damage = Zero
    /\ spawnIndex = 0
    /\ flight = NoFlight
    /\ ndebug = FALSE
    /\ sound = NoSound

\* the state after ReloadGenerators(tag) ended as r
Reloaded(tag, r) ==
    /\ SetWorld(r.W)
    /\ call' = [op |-> "ReloadGenerators", tag |-> tag, ret |-> 0,
                pre |-> World, visited |-> r.visited]

\* explGenHandler->ReloadGenerators(tag)
CallReloadGenerators ==
    /\ status = "ok"
    /\ Len(gens) < MaxHeap
    /\ \E tag \in {<<>>, TagA}, root \in ReloadRoots :
          Reloaded(tag, ReloadGenerators(World, root, tag))
    /\ UNCHANGED codeVars

NextReload == LoadTag \/ CallReloadGenerators

SpecReload == InitReload /\ [][NextReload]_vars

\* the map holds live generators only, each under its own generator ID
RegistrySound ==
    \A k \in DOMAIN explosionGenerators :
        /\ gens[explosionGenerators[k]].live
        /\ gens[explosionGenerators[k]].generatorID = k

\* C33: ReloadGenerators calls Reload on live generators only, its loop
\* over explosionGenerators ends although the Reloads erase and insert
\* elements, and afterwards the map holds only live generators, each under
\* its own generator ID.
C33_ReloadGeneratorsSafe ==
    call.op = "ReloadGenerators"
    => /\ \A i \in DOMAIN call.visited : call.visited[i].live
       /\ status = "ok"
       /\ RegistrySound

\* the loop reloaded two generators, the second of which its first Reload
\* had created, and the map had two other generators before
C33_Witness ==
    /\ call.op = "ReloadGenerators"
    /\ call.tag = <<>>
    /\ Len(call.visited) = 2
    /\ call.visited[2].id \notin DOMAIN call.pre.egs
    /\ DOMAIN call.pre.egs \cap DOMAIN explosionGenerators = {}
    /\ Cardinality(DOMAIN explosionGenerators) = 2


(***************************************************************************)
(* Specification of the compiler and the interpreter on fields at small     *)
(* and at large offsets.                                                    *)
(***************************************************************************)
\* the last offset 16 bits hold, and a field 16 bytes behind 2^16
WideOffsets == {16, 65535, 65552}

OffsetInputs ==
    ({TInt, TFloat, TUChar} \X {<<"1">>, <<"d", "i", "r">>, <<"2", "y", "0">>})
    \cup ({TTexture} \X {<<"x">>})

InitOffset ==
    /\ \E hex \in BOOLEAN : InitWorld(NullRoot, hex)
    /\ call = NoCall
    /\ \E inp \in OffsetInputs : ftype = inp[1] /\ script = inp[2]
    /\ foffset \in WideOffsets
    /\ code = <<>>
    /\ phase = "input"
    /\ ip = 0
    /\ exec = ExecInit
    /\ damage = Zero
    /\ spawnIndex = 0
    /\ flight = NoFlight
    /\ ndebug = FALSE
    /\ sound = NoSound

SpecOffset == InitOffset /\ [][NextCode]_vars

\* the offsets the interpreter reads from the stream
EncodedOffsets == {code[i].arg : i \in {j \in DOMAIN code : code[j].op \in OffsetOps}}

\* C34: the offset operand of every STOREI, STOREF, STOREC, STOREP and DIR
\* the compiler emitted for a field, as the interpreter reads it, is the
\* byte offset of the field, and the write goes to that offset.
C34_EncodedOffsetIsFieldOffset ==
    Returned =>
        /\ EncodedOffsets = {foffset}
        /\ \A i \in DOMAIN exec.writes : exec.writes[i].offset = foffset

\* it is for every offset below 2^16
C34_OffsetKeptBelow65536 ==
    (Returned /\ foffset < 65536) =>
        /\ EncodedOffsets = {foffset}
        /\ \A i \in DOMAIN exec.writes : exec.writes[i].offset = foffset


(***************************************************************************)
(* CSound (System/Sound/OpenAL/Sound.cpp).                                  *)
(* Three threads meet on the object: the thread that constructed it and    *)
(* later destroys it, which also delivers Mute, Iconified and ConfigNotify; *)
(* the sound thread the constructor starts (UpdateThread); and a thread    *)
(* that plays sounds, calling GetNextBestSource, GetSoundId and Update.     *)
(*   mute, appIsIconified, masterVolume, soundThreadQuit, soundSources:    *)
(*         the members; a source is its playing state and its priority     *)
(*   gain: the values alListenerf(AL_GAIN, .) was last called with, none   *)
(*         or one                                                           *)
(*   owner: "alive" until the destructor is entered, "joining" from then   *)
(*   thread: the place of the sound thread: "start" before InitThread,     *)
(*         "loop" at the head of its loop, "exit" past the loop, "done"    *)
(*   early: Mute, Iconified or ConfigNotify ran before InitThread           *)
(*   caller: the playing thread: its place ("idle"; "find" and "best", the *)
(*         two loops of GetNextBestSource, at source i; "hold", with the   *)
(*         pointer ptr it was returned; "ub" once it has read a source     *)
(*         that was destroyed), whether it owns soundMutex, what it was    *)
(*         last returned, and stale: the sources it iterates or points to  *)
(*         were destroyed under it, and alive: it entered                  *)
(*         GetNextBestSource before the destructor was entered             *)
(* soundMutex is held across steps by the playing thread alone: the other  *)
(* holders take and release it within one step.                             *)
(***************************************************************************)
MaxSounds == 2

\* the values of snd_volmaster
Volumes == {0, 50}
Priorities == 0..1

NoPointer == 0
Idle == [pc |-> "idle", i |-> 0, ptr |-> NoPointer, best |-> NoPointer, bestPriority |-> 2, locked |-> FALSE, stale |-> FALSE, alive |-> FALSE]

\* std::atoi(value) * 0.01f
VolumeOf(v) == Rat(v, 100)

\* CSound::CSound: the object once the constructor has returned
CSound(v) ==
    [exists |-> TRUE, mute |-> FALSE, appIsIconified |-> FALSE,
     masterVolume |-> VolumeOf(v), gain |-> <<>>, soundThreadQuit |-> FALSE,
     soundSources |-> <<>>, owner |-> "alive", thread |-> "start",
     early |-> FALSE, lastId |-> 0, caller |-> Idle]

alListenerf(s, value) == [s EXCEPT !.gain = <<value>>]

\* soundMutex can be taken by a thread other than the playing one
MutexFree == ~sound.caller.locked

\* a call the owner of the object delivers, under soundMutex
Delivered(s) == [s EXCEPT !.early = @ \/ s.thread = "start"]

\* CSound::Mute
Mute(s) ==
    LET t == [s EXCEPT !.mute = ~@]
    IN  IF t.mute THEN alListenerf(t, Zero) ELSE alListenerf(t, t.masterVolume)

\* CSound::Iconified
Iconified(s, state) ==
    [(IF s.appIsIconified # state /\ ~s.mute
      THEN IF ~state THEN alListenerf(s, s.masterVolume) ELSE alListenerf(s, Zero)
      ELSE s) EXCEPT !.appIsIconified = state]

\* CSound::ConfigNotify for the key snd_volmaster
ConfigNotify(s, v) ==
    LET t == [s EXCEPT !.masterVolume = VolumeOf(v)]
    IN  IF ~t.mute /\ ~t.appIsIconified THEN alListenerf(t, t.masterVolume) ELSE t

\* CSound::InitThread: no device or no context (n = 0, the thread is told
\* to quit), or n sources that are valid
InitThread(s, n) ==
    IF n = 0 THEN [s EXCEPT !.soundThreadQuit = TRUE]
    ELSE alListenerf([s EXCEPT !.soundSources = [i \in 1..n |-> [playing |-> FALSE, priority |-> 0]]],
                     s.masterVolume)

\* CSound::Update: every source is updated in place; those of stopped end
\* playing
Update(s, stopped) ==
    [s EXCEPT !.soundSources =
        [i \in DOMAIN @ |-> IF i \in stopped THEN [@[i] EXCEPT !.playing = FALSE] ELSE @[i]]]

\* the end of UpdateThread: the sources are destroyed, soundMutex not held
ClearSources(s) ==
    [s EXCEPT !.soundSources = <<>>,
              !.caller.stale = @ \/ s.caller.pc \in {"find", "best", "hold"},
              !.thread = "done"]

\* the playing thread returns from GetNextBestSource with src
ReturnSource(s, src) ==
    [s EXCEPT !.caller = [Idle EXCEPT !.pc = IF src = NoPointer THEN "idle" ELSE "hold",
                                      !.ptr = src,
                                      !.alive = src # NoPointer /\ s.caller.alive]]

\* CSound::GetNextBestSource up to its first loop
GetNextBestSource(s, lock) ==
    IF s.soundSources = <<>> THEN ReturnSource(s, NoPointer)
    ELSE [s EXCEPT !.caller = [Idle EXCEPT !.pc = "find", !.i = 1, !.locked = lock,
                                           !.alive = s.owner = "alive"]]

\* one turn of the loop that looks for a free source
FindFree(s) ==
    LET c == s.caller
    IN  IF c.i > Len(s.soundSources) THEN [s EXCEPT !.caller.pc = "best", !.caller.i = 1]
        ELSE IF ~s.soundSources[c.i].playing THEN ReturnSource(s, c.i)
        ELSE [s EXCEPT !.caller.i = @ + 1]

\* one turn of the loop that looks for the source of the lowest priority
FindBest(s) ==
    LET c == s.caller
    IN  IF c.i > Len(s.soundSources) THEN ReturnSource(s, c.best)
        ELSE IF s.soundSources[c.i].priority <= c.bestPriority
        THEN [s EXCEPT !.caller.best = c.i,
                       !.caller.bestPriority = s.soundSources[c.i].priority,
                       !.caller.i = @ + 1]
        ELSE [s EXCEPT !.caller.i = @ + 1]

\* CSound::GetSoundId: 0 without sources, the identifier of the item with
\* them
GetSoundId(s) ==
    [s EXCEPT !.lastId = IF s.soundSources = <<>> THEN 0 ELSE 1]

\* the source a pointer was returned for is played with a priority
PlaySource(s, priority) ==
    [s EXCEPT !.soundSources[s.caller.ptr] = [playing |-> TRUE, priority |-> priority],
              !.caller = Idle]

\* a read or a write of a source that was destroyed: the thread crashes, or
\* goes on with what the freed memory held
UseAfterFree(s) == [s EXCEPT !.caller = [Idle EXCEPT !.pc = "ub", !.stale = TRUE]]

InitSound ==
    /\ InitWorld(RaceRoot, TRUE)
    /\ call = NoCall
    /\ script = <<>>
    /\ ftype = TFloat
    /\ foffset = 16
    /\ code = <<>>
    /\ phase = "sound"
    /\ ip = 0
    /\ exec = ExecInit
    /\ damage = Zero
    /\ spawnIndex = 0
    /\ flight = NoFlight
    /\ ndebug = FALSE
    /\ \E v \in Volumes : sound = CSound(v)

soundRest ==
    <<worldVars, call, script, ftype, foffset, code, phase, ip, exec, damage, spawnIndex, flight, ndebug>>

CallMute ==
    /\ sound.owner = "alive"
    /\ MutexFree
    /\ sound' = Mute(Delivered(sound))
    /\ UNCHANGED soundRest

CallIconified ==
    /\ sound.owner = "alive"
    /\ MutexFree
    /\ \E state \in BOOLEAN : sound' = Iconified(Delivered(sound), state)
    /\ UNCHANGED soundRest

CallConfigNotify ==
    /\ sound.owner = "alive"
    /\ MutexFree
    /\ \E v \in Volumes : sound' = ConfigNotify(Delivered(sound), v)
    /\ UNCHANGED soundRest

\* CSound::~CSound up to the join
Destroy ==
    /\ sound.owner = "alive"
    /\ sound' = [sound EXCEPT !.soundThreadQuit = TRUE, !.owner = "joining"]
    /\ UNCHANGED soundRest

ThreadInit ==
    /\ sound.thread = "start"
    /\ MutexFree
    /\ \E n \in 0..MaxSounds : sound' = [InitThread(sound, n) EXCEPT !.thread = "loop"]
    /\ UNCHANGED soundRest

\* a turn of the loop of UpdateThread
ThreadUpdate ==
    /\ sound.thread = "loop"
    /\ ~sound.soundThreadQuit
    /\ MutexFree
    /\ \E stopped \in SUBSET DOMAIN sound.soundSources : sound' = Update(sound, stopped)
    /\ UNCHANGED soundRest

ThreadLeave ==
    /\ sound.thread = "loop"
    /\ sound.soundThreadQuit
    /\ sound' = [sound EXCEPT !.thread = "exit"]
    /\ UNCHANGED soundRest

ThreadClear ==
    /\ sound.thread = "exit"
    /\ sound' = ClearSources(sound)
    /\ UNCHANGED soundRest

CallGetNextBestSource ==
    /\ sound.caller.pc = "idle"
    /\ \E lock \in BOOLEAN : sound' = GetNextBestSource(sound, lock)
    /\ UNCHANGED soundRest

StepGetNextBestSource ==
    /\ sound.caller.pc \in {"find", "best"}
    /\ sound' = IF sound.caller.stale THEN UseAfterFree(sound)
                ELSE IF sound.caller.pc = "find" THEN FindFree(sound)
                ELSE FindBest(sound)
    /\ UNCHANGED soundRest

UsePointer ==
    /\ sound.caller.pc = "hold"
    /\ \E priority \in Priorities :
          sound' = IF sound.caller.stale THEN UseAfterFree(sound)
                   ELSE PlaySource(sound, priority)
    /\ UNCHANGED soundRest

CallGetSoundId ==
    /\ sound.caller.pc = "idle"
    /\ sound' = GetSoundId(sound)
    /\ UNCHANGED soundRest

CallUpdate ==
    /\ sound.caller.pc = "idle"
    /\ \E stopped \in SUBSET DOMAIN sound.soundSources : sound' = Update(sound, stopped)
    /\ UNCHANGED soundRest

NextSound ==
    \/ CallMute \/ CallIconified \/ CallConfigNotify \/ Destroy
    \/ ThreadInit \/ ThreadUpdate \/ ThreadLeave \/ ThreadClear
    \/ CallGetNextBestSource \/ StepGetNextBestSource \/ UsePointer
    \/ CallGetSoundId \/ CallUpdate

SpecSound == InitSound /\ [][NextSound]_vars

\* the playing thread iterates soundSources or holds a pointer into it,
\* from a call of GetNextBestSource made before the destructor was entered
InUse == sound.caller.pc \in {"find", "best", "hold"} /\ sound.caller.alive

\* C35: once InitThread has populated soundSources, no step of any thread,
\* the shutdown of the sound thread included, changes its size, and so
\* removes or destroys a source, while the playing thread iterates it or
\* holds a pointer GetNextBestSource returned.
C35_SourcesStableInUse ==
    [][InUse => Len(sound'.soundSources) = Len(sound.soundSources)]_vars

\* the size changes in InitThread and past the loop of the sound thread
\* alone: no turn of the loop and no call changes it
C35_StableUntilThreadExits ==
    [][Len(sound'.soundSources) # Len(sound.soundSources) => sound.thread \in {"start", "exit"}]_vars

\* the listener gain is the one mute, appIsIconified and masterVolume ask for
GainFollows ==
    sound.gain = <<IF sound.mute \/ sound.appIsIconified THEN Zero ELSE sound.masterVolume>>

\* InitThread has run with a device, and every call came after it
Initialised == sound.thread # "start" /\ sound.soundSources # <<>> /\ ~sound.early

\* C36: after any sequence of Mute, Iconified and ConfigNotify calls that
\* follows initialisation, the listener gain last set is 0 whenever mute
\* or appIsIconified is true, and masterVolume when both are false.
C36_GainFollowsMuteAndIconified == Initialised => GainFollows

\* it is whenever the sound is muted or the application is not iconified
C36_GainFollowsUnlessUnmutedIconified ==
    (Initialised /\ (sound.mute \/ ~sound.appIsIconified)) => GainFollows

====
